---- MODULE Spec2Model ----
\* A model of wg-edu-server: the gin route table with its JWTAuth /
\* TeacherOrAdmin / AdminOnly middleware chain, the login and token code,
\* the catalog repository and the transactional student repository over the
\* four PostgreSQL tables users, students, subjects and teacher_subjects.
EXTENDS Integers, Sequences, FiniteSets, TLC

VARIABLES
    phase,              \* position of main(): "schema", "users", "serving"
    now,                \* the wall clock, in ticks (TicksPerSecond ticks a second)
    users,              \* table users: rows [id, username, password, role]
    students,           \* table students: rows [id, user_id, first_name, last_name, email, grade]
    subjects,           \* table subjects: rows [id, grade, name]
    teacher_subjects,   \* table teacher_subjects: rows [teacher_id, subject_id, copy]
    userSeq,            \* users_id_seq: last value handed out
    studentSeq,         \* students_id_seq: last value handed out
    issued,             \* history: every token string createToken has returned
    req,                \* the request in flight or last answered (gin.Context)
    calls               \* repository calls of concurrent requests, statement by statement

vars == <<phase, now, users, students, subjects, teacher_subjects,
          userSeq, studentSeq, issued, req, calls>>

\* ------------------------------------------------------------------ bounds

\* the clock stops at MaxTime ticks
MaxTime == 3
\* ticks of the modelled clock per second (the precision of a NumericDate)
TicksPerSecond == 2
\* login hands out at most MaxIssued tokens
MaxIssued == 2
\* student creates that reach the users_id_seq
MaxCreates == 2
\* requests whose repository calls are interleaved, one call each
NumProcs == 2

\* 24 * time.Hour, scaled to one second of the modelled clock
TokenTTLSeconds == 1

\* ------------------------------------------------------------------ config

\* config.NewConfig().JWTSecret
JWTSecret == "wg-edu-secret-key"

\* ------------------------------------------------------------------ tokens

\* jwt.NewNumericDate: t.Truncate(TimePrecision), TimePrecision = time.Second
NumericDate(t) == (t \div TicksPerSecond) * TicksPerSecond

\* HMAC-SHA256 of the signing input (header.payload) under key: an ideal MAC,
\* equal exactly when key and signed fields are equal
HS256(key, uid, role, iat, exp) == <<key, uid, role, iat, exp>>

\* a well-formed compact JWT: three segments, the claims and the signature
Jwt(uid, role, iat, exp, sig) ==
    [segments |-> 3, uid |-> uid, role |-> role, iat |-> iat, exp |-> exp, sig |-> sig]

\* createToken: claims {user_id, role, exp = now + 24h, iat = now}, HS256 under secret
createTokenRoleFromName(user, secret, t) ==
    LET iat == NumericDate(t)
        exp == NumericDate(t + TokenTTLSeconds * TicksPerSecond)
        role == IF user.username = "test_teacher" THEN "admin" ELSE user.role
    IN  Jwt(user.id, role, iat, exp, HS256(secret, user.id, role, iat, exp))
createToken(user, secret, t) ==
    LET iat == NumericDate(t)
        exp == NumericDate(t + TokenTTLSeconds * TicksPerSecond)
    IN  Jwt(user.id, user.role, iat, exp, HS256(secret, user.id, user.role, iat, exp))

\* a token string that is not three dot-separated base64 segments
Garbage ==
    [segments |-> 1, uid |-> 0, role |-> "", iat |-> 0, exp |-> 0,
     sig |-> HS256("", 0, "", 0, 0)]

\* jwt.ParseWithClaims(tokenString, claims, keyfunc) at time t: "" when the
\* token parses, its signature verifies under the key and exp is in the future
ParseNoSignature(tok, secret, t) ==
    IF tok.segments # 3 THEN "malformed"
    ELSE IF ~(t < tok.exp) THEN "expired"
    ELSE ""
ParseNoExpiry(tok, secret, t) ==
    IF tok.segments # 3 THEN "malformed"
    ELSE IF tok.sig # HS256(secret, tok.uid, tok.role, tok.iat, tok.exp)
         THEN "signature"
    ELSE ""
ParseWithClaims(tok, secret, t) ==
    IF tok.segments # 3 THEN "malformed"
    ELSE IF tok.sig # HS256(secret, tok.uid, tok.role, tok.iat, tok.exp)
         THEN "signature"
    ELSE IF ~(t < tok.exp) THEN "expired"
    ELSE ""

\* ------------------------------------------------------------------ headers

\* The Authorization header as the string scheme ++ cred: cred is the empty
\* sequence or one token string. An absent header reads as "" (c.GetHeader).
NoHeader == [scheme |-> "", cred |-> <<>>]
Bearer(tok) == [scheme |-> "Bearer ", cred |-> <<tok>>]

\* len() of the strings involved
SchemeLen(s) == CASE s = "" -> 0 [] s = "Bearer " -> 7 [] s = "bearer " -> 7 [] s = "Basic " -> 6
CredLen(c) == IF c = <<>> THEN 0 ELSE IF c[1].segments = 3 THEN 5 ELSE 1
HeaderLen(h) == SchemeLen(h.scheme) + CredLen(h.cred)

\* extractToken (both copies): authHeader[7:] when len > 7 and the prefix is
\* "Bearer ", else ""
extractToken(h) ==
    IF HeaderLen(h) > 7 /\ h.scheme = "Bearer " THEN h.cred ELSE <<>>

\* ------------------------------------------------------------------ tables

\* the tables a transaction spans, with the two sequences
DB == [users |-> users, students |-> students, subjects |-> subjects,
       teacher_subjects |-> teacher_subjects,
       userSeq |-> userSeq, studentSeq |-> studentSeq]

NoStudent ==
    [id |-> 0, user_id |-> 0, first_name |-> "", last_name |-> "", email |-> "",
     grade |-> "", username |-> ""]

\* models.StudentRequest
StudentRequest(first, last, email, grade, username, password) ==
    [first_name |-> first, last_name |-> last, email |-> email, grade |-> grade,
     username |-> username, password |-> password]

\* INSERT INTO users on a table without the unique index on username
InsertUserNoUnique(db, username, password, role) ==
    LET id == db.userSeq + 1
    IN  [err |-> "", id |-> id,
         db |-> [db EXCEPT !.userSeq = id,
                           !.users = @ \cup {[id |-> id, username |-> username,
                                              password |-> password, role |-> role]}]]
\* INSERT INTO users ... RETURNING id: the sequence advances before the
\* UNIQUE(username) check and is never rolled back
InsertUser(db, username, password, role) ==
    LET id == db.userSeq + 1
        d1 == [db EXCEPT !.userSeq = id]
    IN  IF \E u \in db.users : u.username = username
        THEN [err |-> "unique", db |-> d1, id |-> 0]
        ELSE [err |-> "", id |-> id,
              db |-> [d1 EXCEPT !.users = @ \cup
                        {[id |-> id, username |-> username,
                          password |-> password, role |-> role]}]]

\* INSERT INTO students ... RETURNING ...: UNIQUE(email), user_id REFERENCES users
InsertStudentNoUnique(db, user_id, r) ==
    LET id == db.studentSeq + 1
        d1 == [db EXCEPT !.studentSeq = id]
        row == [id |-> id, user_id |-> user_id, first_name |-> r.first_name,
                last_name |-> r.last_name, email |-> r.email, grade |-> r.grade]
    IN  [err |-> "", row |-> row, db |-> [d1 EXCEPT !.students = @ \cup {row}]]
InsertStudent(db, user_id, r) ==
    LET id == db.studentSeq + 1
        d1 == [db EXCEPT !.studentSeq = id]
        row == [id |-> id, user_id |-> user_id, first_name |-> r.first_name,
                last_name |-> r.last_name, email |-> r.email, grade |-> r.grade]
    IN  IF \E s \in db.students : s.email = r.email
        THEN [err |-> "unique", db |-> d1, row |-> row]
        ELSE IF ~\E u \in db.users : u.id = user_id
        THEN [err |-> "fk", db |-> d1, row |-> row]
        ELSE [err |-> "", row |-> row, db |-> [d1 EXCEPT !.students = @ \cup {row}]]

\* a DELETE FROM users that matches no row
DeleteUserNoRow(db, id) == db
\* DELETE FROM users WHERE id = $1, with ON DELETE CASCADE of students.user_id
\* and teacher_subjects.teacher_id
DeleteUser(db, id) ==
    [db EXCEPT !.users = {u \in @ : u.id # id},
               !.students = {s \in @ : s.user_id # id},
               !.teacher_subjects = {t \in @ : t.teacher_id # id}]

\* INSERT INTO teacher_subjects ... ON CONFLICT (teacher_id, subject_id) DO
\* NOTHING. copy stands for the row's serial id: it tells rows of one pair apart.
InsertAssignmentPlain(ts, teacherID, subjectID) ==
    ts \cup {[teacher_id |-> teacherID, subject_id |-> subjectID,
              copy |-> 1 + Cardinality({t \in ts : t.teacher_id = teacherID
                                                  /\ t.subject_id = subjectID})]}
InsertAssignment(ts, teacherID, subjectID) ==
    IF \E t \in ts : t.teacher_id = teacherID /\ t.subject_id = subjectID
    THEN ts
    ELSE ts \cup {[teacher_id |-> teacherID, subject_id |-> subjectID, copy |-> 1]}

\* tx.Rollback(): the tables as they were at Begin; sequences keep their values
RollbackKeepsWrites(db0, tx) == tx
Rollback(db0, tx) ==
    [db0 EXCEPT !.userSeq = tx.userSeq, !.studentSeq = tx.studentSeq]

\* what a repository call returns: the error, the tables afterwards, the row
Result(err, db, student) == [err |-> err, db |-> db, student |-> student]

\* the row as scanned, Username left at its zero value
WithUsernameUnset(row, username) ==
    [id |-> row.id, user_id |-> row.user_id, first_name |-> row.first_name,
     last_name |-> row.last_name, email |-> row.email, grade |-> row.grade,
     username |-> ""]
\* the Student a repository call returns: the row with Username filled in
WithUsername(row, username) ==
    [id |-> row.id, user_id |-> row.user_id, first_name |-> row.first_name,
     last_name |-> row.last_name, email |-> row.email, grade |-> row.grade,
     username |-> username]

\* ------------------------------------------------------- student repository

\* The statements of each transaction, in order; fault names the one that
\* fails with a storage error ("" when none does), and is the error returned.
CreateSteps == {"begin", "insert_user", "insert_student", "commit"}
UpdateSteps == {"begin", "select_user_id", "update_password", "update_student",
                "select_username", "commit"}
DeleteSteps == {"begin", "select_user_id", "delete_student", "delete_user", "commit"}

\* models.(*DB).CreateStudent
CreateStudent(db0, r, fault) ==
    IF fault = "begin" THEN Result(fault, db0, NoStudent)
    ELSE IF fault = "insert_user" THEN Result(fault, Rollback(db0, db0), NoStudent)
    ELSE LET i1 == InsertUser(db0, r.username, r.password, "student") IN
    IF i1.err # "" THEN Result(i1.err, Rollback(db0, i1.db), NoStudent)
    ELSE IF fault = "insert_student" THEN Result(fault, Rollback(db0, i1.db), NoStudent)
    ELSE LET i2 == InsertStudent(i1.db, i1.id, r) IN
    IF i2.err # "" THEN Result(i2.err, Rollback(db0, i2.db), NoStudent)
    ELSE IF fault = "commit" THEN Result(fault, Rollback(db0, i2.db), NoStudent)
    ELSE Result("", i2.db, WithUsername(i2.row, r.username))

\* an UPDATE users that sets the role column as well
UpdatePasswordAndRole(db, userID, password) ==
    [db EXCEPT !.users =
       {IF u.id = userID THEN [u EXCEPT !.password = password, !.role = "teacher"]
        ELSE u : u \in @}]
\* an UPDATE users SET password = $1 without its WHERE clause
UpdatePasswordEveryRow(db, userID, password) ==
    [db EXCEPT !.users = {[u EXCEPT !.password = password] : u \in @}]
\* UPDATE users SET password = $1 WHERE id = $2
UpdatePassword(db, userID, password) ==
    [db EXCEPT !.users =
       {IF u.id = userID THEN [u EXCEPT !.password = password] ELSE u : u \in @}]

\* models.(*DB).UpdateStudent
UpdateStudent(db0, id, r, fault) ==
    IF fault = "begin" THEN Result(fault, db0, NoStudent)
    ELSE IF fault = "select_user_id" THEN Result(fault, Rollback(db0, db0), NoStudent)
    ELSE IF ~\E s \in db0.students : s.id = id
    THEN Result("no_rows", Rollback(db0, db0), NoStudent)
    ELSE LET old == CHOOSE s \in db0.students : s.id = id
             userID == old.user_id
             d1 == IF r.password # "" THEN UpdatePassword(db0, userID, r.password)
                   ELSE db0
             row == [old EXCEPT !.first_name = r.first_name, !.last_name = r.last_name,
                                !.email = r.email, !.grade = r.grade]
             d2 == [d1 EXCEPT !.students = (@ \ {old}) \cup {row}]
         IN
    IF r.password # "" /\ fault = "update_password"
    THEN Result(fault, Rollback(db0, db0), NoStudent)
    ELSE IF fault = "update_student" THEN Result(fault, Rollback(db0, d1), NoStudent)
    ELSE IF \E s \in d1.students : s.id # id /\ s.email = r.email
    THEN Result("unique", Rollback(db0, d1), NoStudent)
    ELSE IF fault = "select_username" THEN Result(fault, Rollback(db0, d2), NoStudent)
    ELSE IF ~\E u \in d2.users : u.id = userID
    THEN Result("no_rows", Rollback(db0, d2), NoStudent)
    ELSE IF fault = "commit" THEN Result(fault, Rollback(db0, d2), NoStudent)
    ELSE Result("", d2,
                WithUsername(row, (CHOOSE u \in d2.users : u.id = userID).username))

\* models.(*DB).DeleteStudent
DeleteStudentByUserID(db0, id, fault) ==
    IF fault \in DeleteSteps THEN Result(fault, Rollback(db0, db0), NoStudent)
    ELSE Result("", DeleteUser(db0, id), NoStudent)
DeleteStudent(db0, id, fault) ==
    IF fault = "begin" THEN Result(fault, db0, NoStudent)
    ELSE IF fault = "select_user_id" THEN Result(fault, Rollback(db0, db0), NoStudent)
    ELSE IF ~\E s \in db0.students : s.id = id
    THEN Result("no_rows", Rollback(db0, db0), NoStudent)
    ELSE LET userID == (CHOOSE s \in db0.students : s.id = id).user_id
             d1 == [db0 EXCEPT !.students = {s \in @ : s.id # id}]
             d2 == DeleteUser(d1, userID)
         IN
    IF fault = "delete_student" THEN Result(fault, Rollback(db0, db0), NoStudent)
    ELSE IF fault = "delete_user" THEN Result(fault, Rollback(db0, d1), NoStudent)
    ELSE IF fault = "commit" THEN Result(fault, Rollback(db0, d2), NoStudent)
    ELSE Result("", d2, NoStudent)

\* models.(*DB).GetStudentByID: students JOIN users WHERE s.id = $1
GetStudentByID(db, id) ==
    {WithUsername(s, u.username) :
        <<s, u>> \in {p \in db.students \X db.users :
                        p[1].user_id = p[2].id /\ p[1].id = id}}

\* models.(*DB).GetAllStudents: students JOIN users
GetAllStudents(db) ==
    {WithUsername(p[1], p[2].username) :
        p \in {q \in db.students \X db.users : q[1].user_id = q[2].id}}

\* models.(*DB).GetUserByUsername
GetUserByUsername(db, username) == {u \in db.users : u.username = username}

\* models.(*User).CheckPassword
CheckPassword(user, password) == user.password = password

\* ------------------------------------------------------- catalog repository

\* models.(*DB).GetSubjectByID
GetSubjectByID(db, id) == {s \in db.subjects : s.id = id}

\* the subject names in the order ORDER BY name puts them
NameOrder ==
   << "Additional Mathematics", "Biology", "Business Management", "Chemistry",
      "Economics", "English", "English B", "Math AA", "Math AI", "Mathematics",
      "Physics" >>
NameRank(name) == CHOOSE i \in 1..Len(NameOrder) : NameOrder[i] = name

\* rows in the order of their serial ids
RECURSIVE OrderByID(_)
OrderByID(rows) ==
    IF rows = {} THEN <<>>
    ELSE LET first == CHOOSE s \in rows : \A t \in rows : s.id <= t.id
         IN  <<first>> \o OrderByID(rows \ {first})
\* ORDER BY name
RECURSIVE OrderByName(_)
OrderByName(rows) ==
    IF rows = {} THEN <<>>
    ELSE LET first == CHOOSE s \in rows :
                         \A t \in rows : NameRank(s.name) <= NameRank(t.name)
         IN  <<first>> \o OrderByName(rows \ {first})

\* models.(*DB).GetSubjectsByGrade: the rows of the grade as a list
GetSubjectsByGrade(db, grade) == OrderByName({s \in db.subjects : s.grade = grade})

\* models.(*DB).GetTeacherSubjects: subjects JOIN teacher_subjects
GetTeacherSubjects(db, teacherID) ==
    {s \in db.subjects :
        \E t \in db.teacher_subjects : t.teacher_id = teacherID /\ t.subject_id = s.id}

\* models.(*DB).GetTeacherByID: users WHERE id = $1 AND role = 'teacher'
GetTeacherByID(db, id) ==
    {[id |-> u.id, username |-> u.username, subjects |-> GetTeacherSubjects(db, u.id)] :
        u \in {v \in db.users : v.id = id /\ v.role = "teacher"}}

\* models.(*DB).GetAllTeachers
GetAllTeachers(db) ==
    {[id |-> u.id, username |-> u.username, subjects |-> GetTeacherSubjects(db, u.id)] :
        u \in {v \in db.users : v.role = "teacher"}}

\* models.(*DB).AssignSubjectToTeacher: INSERT ... ON CONFLICT DO NOTHING
AssignSubjectToAnyUser(db, teacherID, subjectID) ==
    IF ~\E u \in db.users : u.id = teacherID
    THEN Result("no_rows", db, NoStudent)
    ELSE IF ~\E s \in db.subjects : s.id = subjectID
    THEN Result("no_rows", db, NoStudent)
    ELSE Result("", [db EXCEPT !.teacher_subjects =
                       InsertAssignment(@, teacherID, subjectID)],
                NoStudent)
AssignToAnySubject(db, teacherID, subjectID) ==
    IF ~\E u \in db.users : u.id = teacherID /\ u.role = "teacher"
    THEN Result("no_rows", db, NoStudent)
    ELSE Result("", [db EXCEPT !.teacher_subjects =
                       InsertAssignment(@, teacherID, subjectID)],
                NoStudent)
AssignSubjectToTeacher(db, teacherID, subjectID) ==
    IF ~\E u \in db.users : u.id = teacherID /\ u.role = "teacher"
    THEN Result("no_rows", db, NoStudent)
    ELSE IF ~\E s \in db.subjects : s.id = subjectID
    THEN Result("no_rows", db, NoStudent)
    ELSE Result("", [db EXCEPT !.teacher_subjects =
                       InsertAssignment(@, teacherID, subjectID)],
                NoStudent)

\* models.(*DB).RemoveSubjectFromTeacher
RemoveAllSubjectsFromTeacher(db, teacherID, subjectID) ==
    Result("", [db EXCEPT !.teacher_subjects = {t \in @ : t.teacher_id # teacherID}],
           NoStudent)
RemoveSubjectFromTeacher(db, teacherID, subjectID) ==
    Result("", [db EXCEPT !.teacher_subjects =
                  {t \in @ : ~(t.teacher_id = teacherID /\ t.subject_id = subjectID)}],
           NoStudent)

\* ------------------------------------------------------------------ startup

\* schema_teachers.sql: the subjects it inserts, in file order (grade, name)
SeedSubjects ==
   << <<"PIB", "Mathematics">>, <<"PIB", "Additional Mathematics">>,
      <<"PIB", "Physics">>, <<"PIB", "Chemistry">>, <<"PIB", "Biology">>,
      <<"PIB", "English">>, <<"IB1", "Math AA">>, <<"IB1", "Math AI">>,
      <<"IB1", "Physics">>, <<"IB1", "Chemistry">>,
      <<"IB1", "Business Management">>, <<"IB1", "Biology">>,
      <<"IB1", "English B">>, <<"IB1", "Economics">>, <<"IB2", "Math AA">>,
      <<"IB2", "Math AI">>, <<"IB2", "Physics">>, <<"IB2", "Chemistry">>,
      <<"IB2", "Business Management">>, <<"IB2", "Biology">>,
      <<"IB2", "English B">>, <<"IB2", "Economics">> >>

\* schema_teachers.sql: the assignments it makes (teacher username, grade, name)
SeedAssignments ==
   << <<"wg", "PIB", "Physics">>, <<"wg", "IB1", "Physics">>,
      <<"wg", "IB2", "Physics">>, <<"wg", "PIB", "Mathematics">>,
      <<"wg", "IB1", "Math AA">>, <<"wg", "IB1", "Math AI">>,
      <<"wg", "IB2", "Math AA">>, <<"wg", "IB2", "Math AI">>,
      <<"yu", "IB1", "Economics">>, <<"yu", "IB2", "Economics">>,
      <<"eddie", "PIB", "English">>, <<"eddie", "IB1", "English B">>,
      <<"eddie", "IB2", "English B">>, <<"li", "PIB", "Biology">>,
      <<"tan", "PIB", "Chemistry">>, <<"liz", "IB1", "Business Management">>,
      <<"liz", "IB2", "Business Management">> >>

\* CreateTestUsers: (username, password, role), in creation order
SeedUsers ==
   << <<"test_admin", "test_admin", "admin">>, <<"test_teacher", "test_teacher", "teacher">>,
      <<"test_student", "test_student", "student">>, <<"wg", "wg_123", "teacher">>,
      <<"liz", "liz_123", "teacher">>, <<"eddie", "eddie_123", "teacher">>,
      <<"yu", "yu_123", "teacher">>, <<"tan", "tan_123", "teacher">>,
      <<"li", "li_123", "teacher">> >>

\* the first DO block: IF NOT EXISTS (grade, name) THEN INSERT, from entry i on
RECURSIVE InsertSubjects(_, _)
InsertSubjects(subs, i) ==
    IF i > Len(SeedSubjects) THEN subs
    ELSE LET g == SeedSubjects[i][1]
             n == SeedSubjects[i][2]
         IN  InsertSubjects(
               IF \E s \in subs : s.grade = g /\ s.name = n THEN subs
               ELSE subs \cup {[id |-> Cardinality(subs) + 1, grade |-> g, name |-> n]},
               i + 1)

\* the second DO block, from entry i on: for each pair whose teacher (username,
\* role = 'teacher') and subject both resolve, INSERT ... ON CONFLICT DO NOTHING
RECURSIVE AssignSeeds(_, _)
AssignSeeds(db, i) ==
    IF i > Len(SeedAssignments) THEN db
    ELSE LET us == {u \in db.users : u.username = SeedAssignments[i][1]
                                      /\ u.role = "teacher"}
             ss == {x \in db.subjects : x.grade = SeedAssignments[i][2]
                                         /\ x.name = SeedAssignments[i][3]}
         IN  AssignSeeds(
               IF us = {} \/ ss = {} THEN db
               ELSE [db EXCEPT !.teacher_subjects =
                       InsertAssignment(@, (CHOOSE u \in us : TRUE).id,
                                           (CHOOSE x \in ss : TRUE).id)],
               i + 1)

\* a store with the tables created and no rows
EmptyStore ==
    [users |-> {}, students |-> {}, subjects |-> {}, teacher_subjects |-> {},
     userSeq |-> 0, studentSeq |-> 0]

\* initializeDatabase: executes schema_teachers.sql
initializeDatabase(db) ==
    AssignSeeds([db EXCEPT !.subjects = InsertSubjects(@, 1)], 1)

\* CreateTestUsers: GetUserByUsername, and CreateUser when it finds none
RECURSIVE CreateTestUsers(_, _)
CreateTestUsers(db, i) ==
    IF i > Len(SeedUsers) THEN db
    ELSE CreateTestUsers(
           IF GetUserByUsername(db, SeedUsers[i][1]) # {} THEN db
           ELSE InsertUser(db, SeedUsers[i][1], SeedUsers[i][2], SeedUsers[i][3]).db,
           i + 1)

\* main: initializeDatabase(db), then CreateTestUsers(db)
main(db) == CreateTestUsers(initializeDatabase(db), 1)

\* the store main leaves when it first runs, on a store without rows
FreshStore == main(EmptyStore)

\* ------------------------------------------------------------------- routes

\* routes.SetupRoutes: for each registered route, the handlers gin runs in
\* order (router.Use, then each group's Use, then the endpoint handler)
RouteTable(route) ==
    CASE route = "GET /api/health" -> <<"CORSMiddleware", "HandleHealth">>
      [] route = "POST /api/login" -> <<"CORSMiddleware", "HandleLogin">>
      [] route = "GET /api/protected" -> <<"CORSMiddleware", "JWTAuth", "HandleProtected">>
      [] route = "GET /api/subjects" -> <<"CORSMiddleware", "JWTAuth", "GetAllSubjects">>
      [] route = "GET /api/subjects/grouped" ->
            <<"CORSMiddleware", "JWTAuth", "GetAllSubjectsGrouped">>
      [] route = "GET /api/subjects/:grade" ->
            <<"CORSMiddleware", "JWTAuth", "GetSubjectsByGrade">>
      [] route = "GET /api/subjects/id/:id" ->
            <<"CORSMiddleware", "JWTAuth", "GetSubjectByID">>
      [] route = "GET /api/teachers" ->
            <<"CORSMiddleware", "JWTAuth", "TeacherOrAdmin", "GetAllTeachers">>
      [] route = "GET /api/teachers/:id" ->
            <<"CORSMiddleware", "JWTAuth", "TeacherOrAdmin", "GetTeacherByID">>
      [] route = "POST /api/teachers/:id/subjects" ->
            <<"CORSMiddleware", "JWTAuth", "TeacherOrAdmin", "AdminOnly",
              "AssignSubjectToTeacher">>
      [] route = "DELETE /api/teachers/:id/subjects/:subjectId" ->
            <<"CORSMiddleware", "JWTAuth", "TeacherOrAdmin", "AdminOnly",
              "RemoveSubjectFromTeacher">>
      [] route = "GET /api/admin/students" ->
            <<"CORSMiddleware", "JWTAuth", "AdminOnly", "HandleGetAllStudents">>
      [] route = "GET /api/admin/students/:id" ->
            <<"CORSMiddleware", "JWTAuth", "AdminOnly", "HandleGetStudent">>
      [] route = "POST /api/admin/students" ->
            <<"CORSMiddleware", "JWTAuth", "AdminOnly", "HandleCreateStudent">>
      [] route = "PUT /api/admin/students/:id" ->
            <<"CORSMiddleware", "JWTAuth", "AdminOnly", "HandleUpdateStudent">>
      [] route = "DELETE /api/admin/students/:id" ->
            <<"CORSMiddleware", "JWTAuth", "AdminOnly", "HandleDeleteStudent">>
      [] OTHER -> <<>>

\* the table with AdminOnly registered ahead of JWTAuth on the admin group
SetupRoutesRolesFirst(route) ==
    IF Len(RouteTable(route)) >= 3 /\ RouteTable(route)[3] = "AdminOnly"
    THEN <<"CORSMiddleware", "AdminOnly", "JWTAuth">>
         \o SubSeq(RouteTable(route), 4, Len(RouteTable(route)))
    ELSE RouteTable(route)
SetupRoutes(route) == RouteTable(route)

PublicRoutes == {"GET /api/health", "POST /api/login"}
OpenRoutes ==
    {"GET /api/protected", "GET /api/subjects", "GET /api/subjects/grouped",
     "GET /api/subjects/:grade", "GET /api/subjects/id/:id"}
TeacherRoutes == {"GET /api/teachers", "GET /api/teachers/:id"}
AssignmentRoutes ==
    {"POST /api/teachers/:id/subjects", "DELETE /api/teachers/:id/subjects/:subjectId"}
StudentRoutes ==
    {"GET /api/admin/students", "GET /api/admin/students/:id", "POST /api/admin/students",
     "PUT /api/admin/students/:id", "DELETE /api/admin/students/:id"}
AdminRoutes == AssignmentRoutes \cup StudentRoutes
ProtectedRoutes == OpenRoutes \cup TeacherRoutes \cup AdminRoutes
Routes == PublicRoutes \cup ProtectedRoutes

\* ------------------------------------------------------------- gin.Context

NoCtx == [set |-> FALSE, user_id |-> 0, role |-> ""]
\* a path parameter: numeric is whether strconv.Atoi accepts it, n its value
Param(numeric, n) == [numeric |-> numeric, n |-> n]
NoParam == Param(FALSE, 0)
NoBody == StudentRequest("", "", "", "", "", "")
\* what the handler read from the request: path parameters and JSON body
\* (malformed: ShouldBindJSON fails)
Input(id, subject, grade, malformed, s) ==
    [id |-> id, subject |-> subject, grade |-> grade, malformed |-> malformed, s |-> s]
NoInput == Input(NoParam, NoParam, "", FALSE, NoBody)
\* what the handler got back and put in the response body
Output(err, token, rows) == [err |-> err, token |-> token, rows |-> rows]
NoOutput == Output("", <<>>, {})

\* a request as gin dispatches it: pc indexes SetupRoutes(route)
NewRequest(route, db) ==
    [route |-> route, header |-> NoHeader, pc |-> 1, aborted |-> FALSE, ctx |-> NoCtx,
     status |-> 0, error |-> "", responses |-> 0, ran |-> <<>>,
     in |-> NoInput, out |-> NoOutput, pre |-> db]

Done(r) == r.aborted \/ r.pc > Len(SetupRoutes(r.route))
Running(name) == ~Done(req) /\ SetupRoutes(req.route)[req.pc] = name

\* c.JSON(status, ...) followed by c.Next() instead of c.Abort()
AbortThenNext(r, name, status, msg) ==
    [r EXCEPT !.ran = Append(@, name), !.status = status, !.error = msg,
              !.pc = @ + 1, !.responses = @ + 1]
\* c.JSON(status, ...); c.Abort(); return
Abort(r, name, status, msg) ==
    [r EXCEPT !.ran = Append(@, name), !.status = status, !.error = msg,
              !.aborted = TRUE, !.responses = @ + 1]
\* c.Next()
Pass(r, name) == [r EXCEPT !.ran = Append(@, name), !.pc = @ + 1]
\* an endpoint handler's c.JSON(status, ...) and return
Respond(r, name, status, msg, in, out) ==
    [r EXCEPT !.ran = Append(@, name), !.pc = @ + 1, !.status = status,
              !.error = msg, !.responses = @ + 1, !.in = in, !.out = out]

\* --------------------------------------------------------------- middleware

\* a gate that looks the token's user up in the users table as well
JWTAuthChecksStore(r, t) ==
    LET tokenString == extractToken(r.header) IN
    IF HeaderLen(r.header) = 0
    THEN Abort(r, "JWTAuth", 401, "Authorization header required")
    ELSE IF tokenString = <<>>
    THEN Abort(r, "JWTAuth", 401, "Invalid token format")
    ELSE IF ParseWithClaims(tokenString[1], JWTSecret, t) # ""
    THEN Abort(r, "JWTAuth", 401, "Invalid token")
    ELSE IF ~\E u \in users : u.id = tokenString[1].uid
    THEN Abort(r, "JWTAuth", 401, "Invalid token")
    ELSE [Pass(r, "JWTAuth") EXCEPT
            !.ctx = [set |-> TRUE, user_id |-> tokenString[1].uid,
                     role |-> tokenString[1].role]]
\* middleware.JWTAuth at time t
JWTAuth(r, t) ==
    LET tokenString == extractToken(r.header) IN
    IF HeaderLen(r.header) = 0
    THEN Abort(r, "JWTAuth", 401, "Authorization header required")
    ELSE IF tokenString = <<>>
    THEN Abort(r, "JWTAuth", 401, "Invalid token format")
    ELSE IF ParseWithClaims(tokenString[1], JWTSecret, t) # ""
    THEN Abort(r, "JWTAuth", 401, "Invalid token")
    ELSE [Pass(r, "JWTAuth") EXCEPT
            !.ctx = [set |-> TRUE, user_id |-> tokenString[1].uid,
                     role |-> tokenString[1].role]]

\* middleware.AdminOnly
AdminOnlyAnswers401(r) ==
    IF ~r.ctx.set \/ r.ctx.role # "admin"
    THEN Abort(r, "AdminOnly", 401, "Authentication required")
    ELSE Pass(r, "AdminOnly")
AdminOnly(r) ==
    IF ~r.ctx.set THEN Abort(r, "AdminOnly", 401, "Authentication required")
    ELSE IF r.ctx.role # "admin"
    THEN Abort(r, "AdminOnly", 403, "Admin access required")
    ELSE Pass(r, "AdminOnly")

\* a filter that lets every authenticated role through
TeacherOrAdminAnyRole(r) ==
    IF ~r.ctx.set THEN Abort(r, "TeacherOrAdmin", 401, "Authentication required")
    ELSE Pass(r, "TeacherOrAdmin")
\* middleware.TeacherOrAdmin
TeacherOrAdmin(r) ==
    IF ~r.ctx.set THEN Abort(r, "TeacherOrAdmin", 401, "Authentication required")
    ELSE IF r.ctx.role # "teacher" /\ r.ctx.role # "admin"
    THEN Abort(r, "TeacherOrAdmin", 403, "Teacher or admin access required")
    ELSE Pass(r, "TeacherOrAdmin")

\* handlers.isAdmin
isAdmin(r) == r.ctx.set /\ r.ctx.role = "admin"

\* a validateToken that does not look at the expiry
validateTokenNoExpiry(tokenString, secret, t) ==
    IF ParseNoExpiry(tokenString, secret, t) # "" THEN <<>> ELSE <<tokenString>>
\* handlers.validateToken: the claims, or nothing when parsing fails
validateToken(tokenString, secret, t) ==
    IF ParseWithClaims(tokenString, secret, t) # "" THEN <<>> ELSE <<tokenString>>

\* handlers.validateAdminToken at time t: "" when the header carries a token
\* that parses and whose role is admin
validateAdminToken(r, t) ==
    LET tokenString == extractToken(r.header) IN
    IF tokenString = <<>> THEN "no token provided"
    ELSE IF validateToken(tokenString[1], JWTSecret, t) = <<>> THEN "invalid token"
    ELSE IF tokenString[1].role # "admin" THEN "admin role required"
    ELSE ""

\* ----------------------------------------------------------------- handlers
\* Each handler yields the answered request r and the tables db afterwards.

Served(r, db) == [r |-> r, db |-> db]

\* handlers.HandleHealth
HandleHealth(r, db) == Served(Respond(r, "HandleHealth", 200, "", NoInput, NoOutput), db)

\* a login handler that answers 404 "User not found" to an unknown username
HandleLoginNamesUnknown(r, db, t, in) ==
    LET found == GetUserByUsername(db, in.s.username)
        user == CHOOSE u \in found : TRUE
    IN
    IF in.malformed \/ in.s.username = "" \/ in.s.password = ""
    THEN Served(Respond(r, "HandleLogin", 400, "Invalid request body", in, NoOutput), db)
    ELSE IF found = {}
    THEN Served(Respond(r, "HandleLogin", 404, "User not found", in, NoOutput), db)
    ELSE IF ~CheckPassword(user, in.s.password)
    THEN Served(Respond(r, "HandleLogin", 401, "Invalid username or password", in,
                        NoOutput), db)
    ELSE Served(Respond(r, "HandleLogin", 200, "", in,
                        Output("", <<createToken(user, JWTSecret, t)>>, {user})), db)
\* handlers.HandleLogin at time t; in.s carries the LoginRequest
HandleLogin(r, db, t, in) ==
    LET found == GetUserByUsername(db, in.s.username)
        user == CHOOSE u \in found : TRUE
    IN
    IF in.malformed \/ in.s.username = "" \/ in.s.password = ""
    THEN Served(Respond(r, "HandleLogin", 400, "Invalid request body", in, NoOutput), db)
    ELSE IF found = {}
    THEN Served(Respond(r, "HandleLogin", 401, "Invalid username or password", in,
                        NoOutput), db)
    ELSE IF ~CheckPassword(user, in.s.password)
    THEN Served(Respond(r, "HandleLogin", 401, "Invalid username or password", in,
                        NoOutput), db)
    ELSE Served(Respond(r, "HandleLogin", 200, "", in,
                        Output("", <<createToken(user, JWTSecret, t)>>, {user})), db)

\* handlers.HandleProtected at time t
HandleProtected(r, db, t) ==
    LET tokenString == extractToken(r.header) IN
    IF tokenString = <<>> \/ validateToken(tokenString[1], JWTSecret, t) = <<>>
    THEN Served(Respond(r, "HandleProtected", 401, "Unauthorized", NoInput, NoOutput), db)
    ELSE Served(Respond(r, "HandleProtected", 200, "", NoInput,
                        Output("", <<>>, {[user_id |-> tokenString[1].uid,
                                           role |-> tokenString[1].role]})), db)

\* handlers.GetAllSubjects
GetAllSubjectsHandler(r, db) ==
    Served(Respond(r, "GetAllSubjects", 200, "", NoInput, Output("", <<>>, db.subjects)), db)

\* handlers.GetAllSubjectsGrouped
GetAllSubjectsGrouped(r, db) ==
    Served(Respond(r, "GetAllSubjectsGrouped", 200, "", NoInput,
                   Output("", <<>>, db.subjects)), db)

\* handlers.GetSubjectsByGrade
GetSubjectsByGradeHandler(r, db, in) ==
    IF in.grade # "PIB" /\ in.grade # "IB1" /\ in.grade # "IB2"
    THEN Served(Respond(r, "GetSubjectsByGrade", 400,
                        "Invalid grade. Must be PIB, IB1, or IB2", in, NoOutput), db)
    ELSE Served(Respond(r, "GetSubjectsByGrade", 200, "", in,
                        Output("", <<>>, GetSubjectsByGrade(db, in.grade))), db)

\* handlers.GetSubjectByID
GetSubjectByIDHandler(r, db, in) ==
    IF ~in.id.numeric
    THEN Served(Respond(r, "GetSubjectByID", 400, "Invalid subject ID", in, NoOutput), db)
    ELSE IF GetSubjectByID(db, in.id.n) = {}
    THEN Served(Respond(r, "GetSubjectByID", 404, "Subject not found", in,
                        Output("no_rows", <<>>, {})), db)
    ELSE Served(Respond(r, "GetSubjectByID", 200, "", in,
                        Output("", <<>>, GetSubjectByID(db, in.id.n))), db)

\* handlers.GetAllTeachers
GetAllTeachersHandler(r, db) ==
    Served(Respond(r, "GetAllTeachers", 200, "", NoInput,
                   Output("", <<>>, GetAllTeachers(db))), db)

\* handlers.GetTeacherByID
GetTeacherByIDHandler(r, db, in) ==
    IF ~in.id.numeric
    THEN Served(Respond(r, "GetTeacherByID", 400, "Invalid teacher ID", in, NoOutput), db)
    ELSE IF GetTeacherByID(db, in.id.n) = {}
    THEN Served(Respond(r, "GetTeacherByID", 404, "Teacher not found", in,
                        Output("no_rows", <<>>, {})), db)
    ELSE Served(Respond(r, "GetTeacherByID", 200, "", in,
                        Output("", <<>>, GetTeacherByID(db, in.id.n))), db)

\* handlers.AssignSubjectToTeacher; in.subject carries the body's subject_id
AssignSubjectToTeacherHandler(r, db, in) ==
    LET res == AssignSubjectToTeacher(db, in.id.n, in.subject.n) IN
    IF ~isAdmin(r)
    THEN Served(Respond(r, "AssignSubjectToTeacher", 401,
                        "Unauthorized: Admin access required", NoInput, NoOutput), db)
    ELSE IF ~in.id.numeric
    THEN Served(Respond(r, "AssignSubjectToTeacher", 400, "Invalid teacher ID",
                        [NoInput EXCEPT !.id = in.id], NoOutput), db)
    ELSE IF in.malformed
    THEN Served(Respond(r, "AssignSubjectToTeacher", 400, "Invalid request body",
                        [NoInput EXCEPT !.id = in.id, !.malformed = TRUE], NoOutput), db)
    ELSE IF res.err # ""
    THEN Served(Respond(r, "AssignSubjectToTeacher", 500,
                        "Failed to assign subject to teacher", in,
                        Output(res.err, <<>>, {})), res.db)
    ELSE Served(Respond(r, "AssignSubjectToTeacher", 200, "", in, NoOutput), res.db)

\* handlers.RemoveSubjectFromTeacher; in.subject carries the :subjectId parameter
RemoveSubjectFromTeacherHandler(r, db, in) ==
    LET res == RemoveSubjectFromTeacher(db, in.id.n, in.subject.n) IN
    IF ~isAdmin(r)
    THEN Served(Respond(r, "RemoveSubjectFromTeacher", 401,
                        "Unauthorized: Admin access required", NoInput, NoOutput), db)
    ELSE IF ~in.id.numeric
    THEN Served(Respond(r, "RemoveSubjectFromTeacher", 400, "Invalid teacher ID",
                        [NoInput EXCEPT !.id = in.id], NoOutput), db)
    ELSE IF ~in.subject.numeric
    THEN Served(Respond(r, "RemoveSubjectFromTeacher", 400, "Invalid subject ID",
                        [NoInput EXCEPT !.id = in.id, !.subject = in.subject],
                        NoOutput), db)
    ELSE IF res.err # ""
    THEN Served(Respond(r, "RemoveSubjectFromTeacher", 500,
                        "Failed to remove subject from teacher", in,
                        Output(res.err, <<>>, {})), res.db)
    ELSE Served(Respond(r, "RemoveSubjectFromTeacher", 200, "", in, NoOutput), res.db)

\* handlers.HandleGetAllStudents at time t
HandleGetAllStudents(r, db, t) ==
    IF validateAdminToken(r, t) # ""
    THEN Served(Respond(r, "HandleGetAllStudents", 401,
                        "Unauthorized - Admin access required", NoInput, NoOutput), db)
    ELSE Served(Respond(r, "HandleGetAllStudents", 200, "", NoInput,
                        Output("", <<>>, GetAllStudents(db))), db)

\* handlers.HandleGetStudent at time t
HandleGetStudent(r, db, t, in) ==
    IF validateAdminToken(r, t) # ""
    THEN Served(Respond(r, "HandleGetStudent", 401,
                        "Unauthorized - Admin access required", NoInput, NoOutput), db)
    ELSE IF ~in.id.numeric
    THEN Served(Respond(r, "HandleGetStudent", 400, "Invalid student ID", in, NoOutput), db)
    ELSE IF GetStudentByID(db, in.id.n) = {}
    THEN Served(Respond(r, "HandleGetStudent", 404, "Student not found", in,
                        Output("no_rows", <<>>, {})), db)
    ELSE Served(Respond(r, "HandleGetStudent", 200, "", in,
                        Output("", <<>>, GetStudentByID(db, in.id.n))), db)

\* HandleCreateStudent: "Validate required fields"
CreateFieldsMissingNoEmail(s) ==
    s.first_name = "" \/ s.last_name = "" \/ s.username = "" \/ s.password = ""
CreateFieldsMissing(s) ==
    s.first_name = "" \/ s.last_name = "" \/ s.email = "" \/ s.username = ""
    \/ s.password = ""

\* HandleUpdateStudent: "Validate required fields (except password ...)"
UpdateFieldsMissing(s) == s.first_name = "" \/ s.last_name = "" \/ s.email = ""

\* handlers.HandleCreateStudent at time t; fault is the statement that fails
HandleCreateStudent(r, db, t, in, fault) ==
    LET res == CreateStudent(db, in.s, fault) IN
    IF validateAdminToken(r, t) # ""
    THEN Served(Respond(r, "HandleCreateStudent", 401,
                        "Unauthorized - Admin access required", NoInput, NoOutput), db)
    ELSE IF in.malformed
    THEN Served(Respond(r, "HandleCreateStudent", 400, "Invalid request data",
                        [NoInput EXCEPT !.malformed = TRUE], NoOutput), db)
    ELSE IF CreateFieldsMissing(in.s)
    THEN Served(Respond(r, "HandleCreateStudent", 400, "Missing required fields", in,
                        NoOutput), db)
    ELSE IF res.err # ""
    THEN Served(Respond(r, "HandleCreateStudent", 500, "Failed to create student", in,
                        Output(res.err, <<>>, {})), res.db)
    ELSE Served(Respond(r, "HandleCreateStudent", 201, "", in,
                        Output("", <<>>, {res.student})), res.db)

\* handlers.HandleUpdateStudent at time t
HandleUpdateStudent(r, db, t, in, fault) ==
    LET res == UpdateStudent(db, in.id.n, in.s, fault) IN
    IF validateAdminToken(r, t) # ""
    THEN Served(Respond(r, "HandleUpdateStudent", 401,
                        "Unauthorized - Admin access required", NoInput, NoOutput), db)
    ELSE IF ~in.id.numeric
    THEN Served(Respond(r, "HandleUpdateStudent", 400, "Invalid student ID",
                        [NoInput EXCEPT !.id = in.id], NoOutput), db)
    ELSE IF in.malformed
    THEN Served(Respond(r, "HandleUpdateStudent", 400, "Invalid request data",
                        [NoInput EXCEPT !.id = in.id, !.malformed = TRUE], NoOutput), db)
    ELSE IF UpdateFieldsMissing(in.s)
    THEN Served(Respond(r, "HandleUpdateStudent", 400, "Missing required fields", in,
                        NoOutput), db)
    ELSE IF res.err # ""
    THEN Served(Respond(r, "HandleUpdateStudent", 500, "Failed to update student", in,
                        Output(res.err, <<>>, {})), res.db)
    ELSE Served(Respond(r, "HandleUpdateStudent", 200, "", in,
                        Output("", <<>>, {res.student})), res.db)

\* handlers.HandleDeleteStudent at time t
HandleDeleteStudent(r, db, t, in, fault) ==
    LET res == DeleteStudent(db, in.id.n, fault) IN
    IF validateAdminToken(r, t) # ""
    THEN Served(Respond(r, "HandleDeleteStudent", 401,
                        "Unauthorized - Admin access required", NoInput, NoOutput), db)
    ELSE IF ~in.id.numeric
    THEN Served(Respond(r, "HandleDeleteStudent", 400, "Invalid student ID", in,
                        NoOutput), db)
    ELSE IF res.err # ""
    THEN Served(Respond(r, "HandleDeleteStudent", 500, "Failed to delete student", in,
                        Output(res.err, <<>>, {})), res.db)
    ELSE Served(Respond(r, "HandleDeleteStudent", 200, "", in, NoOutput), res.db)

\* ------------------------------------------------------------------- inputs
\* The requests clients send, drawn from small sets.

\* a token whose role claim was rewritten after issuance, signature kept
AlterRole(tok) == [tok EXCEPT !.role = "admin"]
\* a token whose exp claim was pushed back after issuance, signature kept
AlterExp(tok) == [tok EXCEPT !.exp = @ + TokenTTLSeconds * TicksPerSecond]
\* an admin token signed by someone who does not hold JWTSecret
SelfSigned ==
    Jwt(1, "admin", 0, MaxTime + 1, HS256("not-the-secret", 1, "admin", 0, MaxTime + 1))

\* Authorization headers built from the tokens handed out so far
TokenHeaders(iss) == {NoHeader} \cup {Bearer(tok) : tok \in iss}
ForgedHeaders(iss) ==
    {[scheme |-> "Bearer ", cred |-> <<>>], [scheme |-> "Basic ", cred |-> <<Garbage>>],
     Bearer(Garbage), Bearer(SelfSigned)}
    \cup {[scheme |-> "bearer ", cred |-> <<tok>>] : tok \in iss}
    \cup {Bearer(AlterRole(tok)) : tok \in iss}
    \cup {Bearer(AlterExp(tok)) : tok \in iss}

Login(username, password) ==
    Input(NoParam, NoParam, "", FALSE, StudentRequest("", "", "", "", username, password))
Malformed == Input(NoParam, NoParam, "", TRUE, NoBody)
Body(s) == Input(NoParam, NoParam, "", FALSE, s)

\* inputs that exercise the gate: every route, forged headers, a moving clock
GateInputs ==
    [forged |-> TRUE,
     logins |-> {Malformed, Login("", "test_admin"), Login("nobody", "test_admin"),
                 Login("test_admin", "test_admin"), Login("test_admin", "wg_123"),
                 Login("test_teacher", "test_teacher"), Login("test_teacher", ""),
                 Login("s1", "pw1")},
     creates |-> {Malformed,
                  Body(StudentRequest("Ann", "Lee", "a@x", "IB1", "s1", "pw1")),
                  Body(StudentRequest("Ann", "Lee", "", "IB1", "s1", "pw1"))},
     updates |-> {Malformed,
                  Body(StudentRequest("Bob", "Lee", "b@x", "IB2", "", "pw2")),
                  Body(StudentRequest("Bob", "", "b@x", "IB2", "", ""))},
     studentIds |-> {Param(FALSE, 0), Param(TRUE, 1), Param(TRUE, MaxCreates + 1)},
     teacherIds |-> {Param(FALSE, 0), Param(TRUE, 1), Param(TRUE, 4), Param(TRUE, 0)},
     subjectIds |-> {Param(FALSE, 0), Param(TRUE, 3), Param(TRUE, 0)},
     grades |-> {"PIB", "IB3"},
     faults |-> {""}]

\* inputs that exercise the student transactions: admin requests, bodies that
\* collide on username or email, a storage fault at any statement
StudentInputs ==
    [forged |-> FALSE,
     logins |-> {Login("test_admin", "test_admin"), Login("s1", "pw1"),
                 Login("s1", "pw2")},
     creates |-> {Body(StudentRequest("Ann", "Lee", "", "IB1", "s1", "pw1"))}
                 \cup {Body(StudentRequest("Ann", "Lee", e, "IB1", u, "pw1")) :
                          e \in {"a@x", "b@x"}, u \in {"s1", "s2", "wg"}},
     updates |-> {Malformed}
                 \cup {Body(StudentRequest("Bob", "Lee", e, "IB2", "s2", pw)) :
                          e \in {"a@x", "b@x"}, pw \in {"", "pw2"}},
     studentIds |-> {Param(TRUE, 1), Param(TRUE, 2), Param(TRUE, MaxCreates + 1)},
     teacherIds |-> {Param(TRUE, 4)},
     subjectIds |-> {Param(TRUE, 3)},
     grades |-> {"PIB"},
     faults |-> {""} \cup CreateSteps \cup UpdateSteps \cup DeleteSteps]

\* inputs that exercise the catalog and the identities across restarts: admin
\* and teacher logins, assignments to teachers, non-teachers and unknown ids,
\* student bodies that collide with each other and with a seeded username
CatalogInputs ==
    [forged |-> FALSE,
     logins |-> {Login("test_admin", "test_admin"), Login("wg", "wg_123")},
     creates |-> {Body(StudentRequest("Ann", "Lee", "a@x", "IB1", "s1", "pw1")),
                  Body(StudentRequest("Ann", "Lee", "b@x", "IB1", "s2", "pw1")),
                  Body(StudentRequest("Ann", "Lee", "b@x", "IB1", "wg", "pw1"))},
     updates |-> {Body(StudentRequest("Bob", "Lee", "a@x", "IB2", "", "pw2"))},
     studentIds |-> {Param(TRUE, 1), Param(TRUE, 2)},
     teacherIds |-> {Param(TRUE, 1), Param(TRUE, 3), Param(TRUE, 4),
                     Param(TRUE, Len(SeedUsers) + 1)},
     subjectIds |-> {Param(TRUE, 3), Param(TRUE, Len(SeedSubjects) + 1)},
     grades |-> {"PIB", "IB1", "IB2", "IB3", "pib"},
     faults |-> {""}]

\* ------------------------------------------------------- concurrent calls
\* A request that has passed the gate and whose handler is inside a repository
\* function: the function's SQL statements run one at a time, interleaved with
\* those of the other requests (PostgreSQL, READ COMMITTED).

Procs == 1..NumProcs

\* w: the rows the call's open transaction has inserted and not yet committed;
\* with: the calls that were running when this one began
Idle ==
    [op |-> "none", pc |-> "idle", r |-> NoBody, teacher |-> 0, subject |-> 0,
     uid |-> 0, w |-> [users |-> {}, students |-> {}], status |-> 0, err |-> "",
     with |-> {}]

Active(c) == c.op # "none" /\ c.pc # "done"

\* what a statement of call p sees: the committed rows and its own
View(db, c) ==
    [db EXCEPT !.users = @ \cup c.w.users, !.students = @ \cup c.w.students]

\* a unique index makes an INSERT wait while another open transaction holds an
\* uncommitted row with the same key
NeverWaits(cs, p, key, table) == FALSE
Waits(cs, p, key, table) ==
    \E q \in Procs \ {p} :
        /\ Active(cs[q])
        /\ IF table = "users"
           THEN \E u \in cs[q].w.users : u.username = key
           ELSE \E x \in cs[q].w.students : x.email = key

\* the bodies and pairs the concurrent requests carry
ConcurrentCreates ==
    {StudentRequest("Ann", "Lee", e, "IB1", u, "pw1") :
        e \in {"a@x", "b@x"}, u \in {"s1", "s2"}}
ConcurrentTeachers == {1, 4}
ConcurrentSubjects == {3}

\* ------------------------------------------------------------------ actions

Store(db) ==
    /\ users' = db.users
    /\ students' = db.students
    /\ subjects' = db.subjects
    /\ teacher_subjects' = db.teacher_subjects
    /\ userSeq' = db.userSeq
    /\ studentSeq' = db.studentSeq

tables == <<users, students, subjects, teacher_subjects, userSeq, studentSeq>>

\* the handler's answer becomes the request's, its writes the tables'
Serve(res) == req' = res.r /\ Store(res.db)

Init ==
    /\ phase = "schema"
    /\ now = 0
    /\ users = {} /\ students = {} /\ subjects = {} /\ teacher_subjects = {}
    /\ userSeq = 0 /\ studentSeq = 0
    /\ issued = {}
    /\ calls = [p \in Procs |-> Idle]
    /\ req = NewRequest("none", [users |-> {}, students |-> {}, subjects |-> {},
                                 teacher_subjects |-> {}, userSeq |-> 0,
                                 studentSeq |-> 0])

\* time passes
Tick ==
    /\ now < MaxTime
    /\ now' = now + 1
    /\ UNCHANGED <<calls, phase, tables, issued, req>>

\* main: initializeDatabase(db)
StartSchema ==
    /\ phase = "schema"
    /\ Store(initializeDatabase(DB))
    /\ phase' = "users"
    /\ UNCHANGED <<calls, now, issued, req>>

\* main: CreateTestUsers(db), then router.Run
StartUsers ==
    /\ phase = "users"
    /\ Store(CreateTestUsers(DB, 1))
    /\ phase' = "serving"
    /\ UNCHANGED <<calls, now, issued, req>>

\* the process is stopped and main runs again on the store as it is; the new
\* process has no request yet
Restart ==
    /\ phase = "serving"
    /\ Done(req)
    /\ phase' = "schema"
    /\ req' = NewRequest("none", DB)
    /\ UNCHANGED <<calls, now, tables, issued>>

\* a client sends a request; gin builds its context
StartRequest(P) ==
    /\ phase = "serving"
    /\ Done(req)
    /\ \E route \in Routes : req' = NewRequest(route, DB)
    /\ UNCHANGED <<calls, phase, now, tables, issued>>

\* routes.CORSMiddleware on a GET, POST, PUT or DELETE
CORSMiddleware ==
    /\ Running("CORSMiddleware")
    /\ req' = Pass(req, "CORSMiddleware")
    /\ UNCHANGED <<calls, phase, now, tables, issued>>

\* middleware.JWTAuth; the Authorization header is drawn where it is first read
RunJWTAuth(P) ==
    /\ Running("JWTAuth")
    /\ \E h \in TokenHeaders(issued) \cup (IF P.forged THEN ForgedHeaders(issued) ELSE {}) :
          req' = JWTAuth([req EXCEPT !.header = h], now)
    /\ UNCHANGED <<calls, phase, now, tables, issued>>

RunTeacherOrAdmin ==
    /\ Running("TeacherOrAdmin")
    /\ req' = TeacherOrAdmin(req)
    /\ UNCHANGED <<calls, phase, now, tables, issued>>

RunAdminOnly ==
    /\ Running("AdminOnly")
    /\ req' = AdminOnly(req)
    /\ UNCHANGED <<calls, phase, now, tables, issued>>

ServeHealth ==
    /\ Running("HandleHealth")
    /\ Serve(HandleHealth(req, DB))
    /\ UNCHANGED <<calls, phase, now, issued>>

ServeLogin(P) ==
    /\ Running("HandleLogin")
    /\ \E in \in P.logins :
          LET res == HandleLogin(req, DB, now, in) IN
          /\ Serve(res)
          /\ issued' = issued \cup {res.r.out.token[i] : i \in 1..Len(res.r.out.token)}
          /\ Cardinality(issued') <= MaxIssued
    /\ UNCHANGED <<calls, phase, now>>

ServeProtected ==
    /\ Running("HandleProtected")
    /\ Serve(HandleProtected(req, DB, now))
    /\ UNCHANGED <<calls, phase, now, issued>>

ServeGetAllSubjects ==
    /\ Running("GetAllSubjects")
    /\ Serve(GetAllSubjectsHandler(req, DB))
    /\ UNCHANGED <<calls, phase, now, issued>>

ServeGetAllSubjectsGrouped ==
    /\ Running("GetAllSubjectsGrouped")
    /\ Serve(GetAllSubjectsGrouped(req, DB))
    /\ UNCHANGED <<calls, phase, now, issued>>

ServeGetSubjectsByGrade(P) ==
    /\ Running("GetSubjectsByGrade")
    /\ \E g \in P.grades :
          Serve(GetSubjectsByGradeHandler(req, DB, [NoInput EXCEPT !.grade = g]))
    /\ UNCHANGED <<calls, phase, now, issued>>

ServeGetSubjectByID(P) ==
    /\ Running("GetSubjectByID")
    /\ \E id \in P.subjectIds :
          Serve(GetSubjectByIDHandler(req, DB, [NoInput EXCEPT !.id = id]))
    /\ UNCHANGED <<calls, phase, now, issued>>

ServeGetAllTeachers ==
    /\ Running("GetAllTeachers")
    /\ Serve(GetAllTeachersHandler(req, DB))
    /\ UNCHANGED <<calls, phase, now, issued>>

ServeGetTeacherByID(P) ==
    /\ Running("GetTeacherByID")
    /\ \E id \in P.teacherIds :
          Serve(GetTeacherByIDHandler(req, DB, [NoInput EXCEPT !.id = id]))
    /\ UNCHANGED <<calls, phase, now, issued>>

ServeAssignSubjectToTeacher(P) ==
    /\ Running("AssignSubjectToTeacher")
    /\ \E id \in P.teacherIds, sid \in P.subjectIds, bad \in BOOLEAN :
          Serve(AssignSubjectToTeacherHandler(req, DB,
                  IF bad THEN [NoInput EXCEPT !.id = id, !.malformed = TRUE]
                  ELSE [NoInput EXCEPT !.id = id,
                                       !.subject = Param(TRUE, sid.n)]))
    /\ UNCHANGED <<calls, phase, now, issued>>

ServeRemoveSubjectFromTeacher(P) ==
    /\ Running("RemoveSubjectFromTeacher")
    /\ \E id \in P.teacherIds, sid \in P.subjectIds :
          Serve(RemoveSubjectFromTeacherHandler(req, DB,
                  [NoInput EXCEPT !.id = id, !.subject = sid]))
    /\ UNCHANGED <<calls, phase, now, issued>>

ServeGetAllStudents ==
    /\ Running("HandleGetAllStudents")
    /\ Serve(HandleGetAllStudents(req, DB, now))
    /\ UNCHANGED <<calls, phase, now, issued>>

ServeGetStudent(P) ==
    /\ Running("HandleGetStudent")
    /\ \E id \in P.studentIds :
          Serve(HandleGetStudent(req, DB, now, [NoInput EXCEPT !.id = id]))
    /\ UNCHANGED <<calls, phase, now, issued>>

ServeCreateStudent(P) ==
    /\ Running("HandleCreateStudent")
    /\ \E in \in P.creates, fault \in P.faults :
          LET res == HandleCreateStudent(req, DB, now, in, fault) IN
          /\ res.db.userSeq <= Len(SeedUsers) + MaxCreates
          /\ Serve(res)
    /\ UNCHANGED <<calls, phase, now, issued>>

ServeUpdateStudent(P) ==
    /\ Running("HandleUpdateStudent")
    /\ \E id \in P.studentIds, in \in P.updates, fault \in P.faults :
          Serve(HandleUpdateStudent(req, DB, now, [in EXCEPT !.id = id], fault))
    /\ UNCHANGED <<calls, phase, now, issued>>

ServeDeleteStudent(P) ==
    /\ Running("HandleDeleteStudent")
    /\ \E id \in P.studentIds, fault \in P.faults :
          Serve(HandleDeleteStudent(req, DB, now, [NoInput EXCEPT !.id = id], fault))
    /\ UNCHANGED <<calls, phase, now, issued>>

\* HandleCreateStudent calls CreateStudent
CallCreate(p) ==
    /\ phase = "serving"
    /\ calls[p].op = "none"
    /\ userSeq + Cardinality({q \in Procs : calls[q].op = "create"
                                 /\ calls[q].pc \in {"begin", "insert_user"}})
          < Len(SeedUsers) + MaxCreates
    /\ \E r \in ConcurrentCreates :
          calls' = [calls EXCEPT ![p] =
                      [Idle EXCEPT !.op = "create", !.pc = "begin", !.r = r,
                                   !.with = {q \in Procs : Active(calls[q])}]]
    /\ UNCHANGED <<phase, now, tables, issued, req>>

\* CreateStudent: db.Begin()
CreateBegin(p) ==
    /\ calls[p].op = "create" /\ calls[p].pc = "begin"
    /\ calls' = [calls EXCEPT ![p].pc = "insert_user"]
    /\ UNCHANGED <<phase, now, tables, issued, req>>

\* CreateStudent: INSERT INTO users; on error the deferred Rollback and 500
CreateInsertUser(p) ==
    LET c == calls[p]
        i1 == InsertUser(View(DB, c), c.r.username, c.r.password, "student")
    IN  /\ c.op = "create" /\ c.pc = "insert_user"
        /\ ~Waits(calls, p, c.r.username, "users")
        /\ IF i1.err # ""
           THEN /\ Store(Rollback(DB, i1.db))
                /\ calls' = [calls EXCEPT ![p].pc = "done", ![p].status = 500,
                                          ![p].err = i1.err, ![p].w = Idle.w]
           ELSE /\ Store([DB EXCEPT !.userSeq = i1.db.userSeq])
                /\ calls' = [calls EXCEPT ![p].pc = "insert_student", ![p].uid = i1.id,
                                          ![p].w.users = i1.db.users \ users]
        /\ UNCHANGED <<phase, now, issued, req>>

\* CreateStudent: INSERT INTO students; on error the deferred Rollback and 500
CreateInsertStudent(p) ==
    LET c == calls[p]
        i2 == InsertStudent(View(DB, c), c.uid, c.r)
    IN  /\ c.op = "create" /\ c.pc = "insert_student"
        /\ ~Waits(calls, p, c.r.email, "students")
        /\ IF i2.err # ""
           THEN /\ Store(Rollback(DB, i2.db))
                /\ calls' = [calls EXCEPT ![p].pc = "done", ![p].status = 500,
                                          ![p].err = i2.err, ![p].w = Idle.w]
           ELSE /\ Store([DB EXCEPT !.studentSeq = i2.db.studentSeq])
                /\ calls' = [calls EXCEPT ![p].pc = "commit",
                                          ![p].w.students = i2.db.students \ students]
        /\ UNCHANGED <<phase, now, issued, req>>

\* CreateStudent: tx.Commit(), and the handler's 201
CreateCommit(p) ==
    /\ calls[p].op = "create" /\ calls[p].pc = "commit"
    /\ Store(View(DB, calls[p]))
    /\ calls' = [calls EXCEPT ![p].pc = "done", ![p].status = 201, ![p].w = Idle.w]
    /\ UNCHANGED <<phase, now, issued, req>>

\* the AssignSubjectToTeacher handler calls the repository function
CallAssign(p) ==
    /\ phase = "serving"
    /\ calls[p].op = "none"
    /\ \E t \in ConcurrentTeachers, x \in ConcurrentSubjects :
          calls' = [calls EXCEPT ![p] =
                      [Idle EXCEPT !.op = "assign", !.pc = "check_teacher",
                                   !.teacher = t, !.subject = x,
                                   !.with = {q \in Procs : Active(calls[q])}]]
    /\ UNCHANGED <<phase, now, tables, issued, req>>

\* AssignSubjectToTeacher: SELECT EXISTS(... users WHERE id AND role = 'teacher')
AssignCheckTeacher(p) ==
    /\ calls[p].op = "assign" /\ calls[p].pc = "check_teacher"
    /\ calls' = IF \E u \in users : u.id = calls[p].teacher /\ u.role = "teacher"
                THEN [calls EXCEPT ![p].pc = "check_subject"]
                ELSE [calls EXCEPT ![p].pc = "done", ![p].status = 500,
                                   ![p].err = "no_rows"]
    /\ UNCHANGED <<phase, now, tables, issued, req>>

\* AssignSubjectToTeacher: SELECT EXISTS(... subjects WHERE id)
AssignCheckSubject(p) ==
    /\ calls[p].op = "assign" /\ calls[p].pc = "check_subject"
    /\ calls' = IF \E x \in subjects : x.id = calls[p].subject
                THEN [calls EXCEPT ![p].pc = "insert"]
                ELSE [calls EXCEPT ![p].pc = "done", ![p].status = 500,
                                   ![p].err = "no_rows"]
    /\ UNCHANGED <<phase, now, tables, issued, req>>

\* AssignSubjectToTeacher: INSERT ... ON CONFLICT DO NOTHING, and the handler's 200
AssignInsert(p) ==
    /\ calls[p].op = "assign" /\ calls[p].pc = "insert"
    /\ teacher_subjects' =
          InsertAssignment(teacher_subjects, calls[p].teacher, calls[p].subject)
    /\ calls' = [calls EXCEPT ![p].pc = "done", ![p].status = 200]
    /\ UNCHANGED <<phase, now, users, students, subjects, userSeq, studentSeq,
                   issued, req>>

\* the server under the inputs P
Requests(P) ==
    \/ StartRequest(P)
    \/ CORSMiddleware
    \/ RunJWTAuth(P)
    \/ RunTeacherOrAdmin
    \/ RunAdminOnly
    \/ ServeHealth
    \/ ServeLogin(P)
    \/ ServeProtected
    \/ ServeGetAllSubjects
    \/ ServeGetAllSubjectsGrouped
    \/ ServeGetSubjectsByGrade(P)
    \/ ServeGetSubjectByID(P)
    \/ ServeGetAllTeachers
    \/ ServeGetTeacherByID(P)
    \/ ServeAssignSubjectToTeacher(P)
    \/ ServeRemoveSubjectFromTeacher(P)
    \/ ServeGetAllStudents
    \/ ServeGetStudent(P)
    \/ ServeCreateStudent(P)
    \/ ServeUpdateStudent(P)
    \/ ServeDeleteStudent(P)

Next ==
    \/ StartSchema
    \/ StartUsers
    \/ Tick
    \/ Requests(GateInputs)

Spec == Init /\ [][Next]_vars

\* the server with the clock held still, under the student-transaction inputs
NextStudents ==
    \/ StartSchema
    \/ StartUsers
    \/ Requests(StudentInputs)

SpecStudents == Init /\ [][NextStudents]_vars

\* the server restarted at will, under the catalog inputs
NextRestarts ==
    \/ StartSchema
    \/ StartUsers
    \/ Restart
    \/ Requests(CatalogInputs)

SpecRestarts == Init /\ [][NextRestarts]_vars

\* the server with the repository calls of NumProcs requests interleaved
NextConcurrent ==
    \/ StartSchema
    \/ StartUsers
    \/ \E p \in Procs :
          \/ CallCreate(p)
          \/ CreateBegin(p)
          \/ CreateInsertUser(p)
          \/ CreateInsertStudent(p)
          \/ CreateCommit(p)
          \/ CallAssign(p)
          \/ AssignCheckTeacher(p)
          \/ AssignCheckSubject(p)
          \/ AssignInsert(p)

SpecConcurrent == Init /\ [][NextConcurrent]_vars

\* =================================================================== claims

Middleware == {"CORSMiddleware", "JWTAuth", "TeacherOrAdmin", "AdminOnly"}
RoleFilters == {"TeacherOrAdmin", "AdminOnly"}
Ran(name) == \E i \in 1..Len(req.ran) : req.ran[i] = name
RoleFilterRan == \E i \in 1..Len(req.ran) : req.ran[i] \in RoleFilters
HandlerRan == \E i \in 1..Len(req.ran) : req.ran[i] \notin Middleware
\* the header is not "Bearer " followed by a non-empty token
BadHeader(h) == h.scheme # "Bearer " \/ h.cred = <<>>
\* the header carries a token login handed out, with role role, not yet expired
Carries(role) ==
    /\ req.header.scheme = "Bearer "
    /\ req.header.cred # <<>>
    /\ req.header.cred[1] \in issued
    /\ req.header.cred[1].role = role
    /\ now < req.header.cred[1].exp
\* the request wrote no row
NothingWritten ==
    /\ users = req.pre.users
    /\ students = req.pre.students
    /\ subjects = req.pre.subjects
    /\ teacher_subjects = req.pre.teacher_subjects

\* C1: on every protected route JWTAuth is the first thing after CORS to run;
\* a request whose Authorization header is absent or is not "Bearer " plus a
\* non-empty token is answered 401 by JWTAuth, which ends the chain: no role
\* filter and no handler runs for it, and its status is never 403.
C1_Unauthenticated ==
    req.route \in ProtectedRoutes =>
        /\ Len(req.ran) >= 2 => req.ran[2] = "JWTAuth"
        /\ (Ran("JWTAuth") /\ BadHeader(req.header)) =>
              /\ req.status = 401
              /\ req.aborted
              /\ req.responses = 1
              /\ req.ran = <<"CORSMiddleware", "JWTAuth">>
        /\ (BadHeader(req.header) /\ Len(req.ran) >= 2) =>
              /\ ~RoleFilterRan
              /\ ~HandlerRan
              /\ req.status # 403

C1_Witness ==
    /\ req.route = "POST /api/teachers/:id/subjects"
    /\ req.header = [scheme |-> "Basic ", cred |-> <<Garbage>>]
    /\ req.status = 401
    /\ req.ran = <<"CORSMiddleware", "JWTAuth">>

\* C2: on every admin-only route a request carrying a token that login issued
\* to a teacher and that has not expired is answered 403 by AdminOnly, and the
\* endpoint handler does not run.
C2_TeacherForbidden ==
    (req.route \in AdminRoutes /\ Ran("JWTAuth") /\ Carries("teacher")) =>
        /\ ~HandlerRan
        /\ Done(req) => (req.status = 403 /\ req.ran[Len(req.ran)] = "AdminOnly"
                         /\ req.responses = 1)

C2_Witness ==
    /\ req.route = "DELETE /api/teachers/:id/subjects/:subjectId"
    /\ Carries("teacher")
    /\ req.status = 403
    /\ req.ran = <<"CORSMiddleware", "JWTAuth", "TeacherOrAdmin", "AdminOnly">>

\* a step in which HandleLogin answers 200 with a token
LoginIssues ==
    /\ Running("HandleLogin")
    /\ req'.status = 200
    /\ req'.out.token # <<>>
\* a step in which JWTAuth looks at a token that login handed out
GateChecksIssued ==
    /\ Running("JWTAuth")
    /\ req'.header.scheme = "Bearer "
    /\ req'.header.cred # <<>>
    /\ req'.header.cred[1] \in issued

\* C3 as claimed: a token issued at time T carries expiry T + 24h; the gate
\* accepts it exactly while the clock is before its expiry, so at every time
\* before T + 24h, and rejects it with 401 afterwards; nothing extends it.
C3_ExpiryIsIssuePlus24h ==
    [][ /\ LoginIssues =>
              req'.out.token[1].exp = now + TokenTTLSeconds * TicksPerSecond
        /\ GateChecksIssued =>
              IF now < req'.header.cred[1].exp
              THEN req'.ctx.set /\ ~req'.aborted
              ELSE req'.aborted /\ req'.status = 401
        /\ issued \subseteq issued'
      ]_vars

\* C3 as amended: the expiry is T + 24h cut down to the whole second; the gate
\* accepts the token at every time before that instant and rejects it with 401
\* at every time from that instant on; no step changes a token handed out, and
\* a copy with a later expiry is rejected.
C3_ExpiryTruncated ==
    [][ /\ LoginIssues =>
              /\ req'.out.token[1].exp =
                    NumericDate(now + TokenTTLSeconds * TicksPerSecond)
              /\ req'.out.token[1].exp <= now + TokenTTLSeconds * TicksPerSecond
              /\ req'.out.token[1].exp > now
              /\ req'.out.token[1] \in issued'
        /\ GateChecksIssued =>
              IF now < req'.header.cred[1].exp
              THEN req'.ctx.set /\ ~req'.aborted
              ELSE req'.aborted /\ req'.status = 401
        /\ (Running("JWTAuth") /\ req'.header.cred # <<>>
              /\ \E tok \in issued : req'.header.cred[1] = AlterExp(tok)) =>
              req'.aborted /\ req'.status = 401
        /\ issued \subseteq issued'
      ]_vars

\* a token issued off the whole second is refused while the clock is still
\* before its issue time plus 24h
C3_Witness ==
    /\ Ran("JWTAuth")
    /\ req.header.scheme = "Bearer "
    /\ req.header.cred # <<>>
    /\ req.header.cred[1] \in issued
    /\ req.aborted /\ req.status = 401
    /\ now = req.header.cred[1].exp

\* the context JWTAuth leaves when it reads tok at time t on a protected route
Validate(tok, t) ==
    JWTAuth([NewRequest("GET /api/protected", DB) EXCEPT
                !.header = Bearer(tok), !.pc = 2, !.ran = <<"CORSMiddleware">>], t).ctx

\* C4: a login whose username and password equal a stored identity's is
\* answered 200 with a token, and at every time before the token's expiry
\* JWTAuth puts exactly that identity's id and role in the request context.
C4_LoginRoundTrip ==
    (req.route = "POST /api/login" /\ HandlerRan /\ ~req.in.malformed) =>
        \A u \in users :
            (req.in.s.username = u.username /\ req.in.s.password = u.password) =>
                /\ req.status = 200
                /\ req.out.token # <<>>
                /\ req.out.token[1] \in issued
                /\ \A t \in 0..(req.out.token[1].exp - 1) :
                      Validate(req.out.token[1], t) =
                          [set |-> TRUE, user_id |-> u.id, role |-> u.role]

C4_Witness ==
    /\ req.route = "POST /api/login"
    /\ req.status = 200
    /\ req.in.s.username = "s1"
    /\ \E u \in users : u.username = "s1" /\ u.role = "student"
                        /\ req.out.token[1].uid = u.id

\* C5: JWTAuth admits only tokens that login issued. A request whose token is
\* malformed, is signed under another key or had its claims altered is answered
\* 401; the id and role attached to an admitted request are those of a token in
\* issued, and every token entering issued carries the id and role of an
\* identity stored at that moment.
C5_OnlyIssuedTokens ==
    [][ /\ \A tok \in issued' \ issued :
              \E u \in users : tok.uid = u.id /\ tok.role = u.role
        /\ (Running("JWTAuth") /\ req'.header.cred # <<>>
              /\ req'.header.cred[1] \notin issued) =>
              (req'.aborted /\ req'.status = 401 /\ ~req'.ctx.set)
        /\ req'.ctx.set =>
              /\ req'.header.cred # <<>>
              /\ req'.header.cred[1] \in issued'
              /\ req'.ctx.user_id = req'.header.cred[1].uid
              /\ req'.ctx.role = req'.header.cred[1].role
      ]_vars

C5_Witness ==
    /\ Ran("JWTAuth")
    /\ issued # {}
    /\ req.header.cred # <<>>
    /\ \E tok \in issued : req.header.cred[1] = AlterRole(tok) /\ tok.role = "teacher"
    /\ req.status = 401

\* the usernames main creates at startup
SeedNames == {SeedUsers[i][1] : i \in 1..Len(SeedUsers)}

\* C6: in every committed state each student profile's user_id names exactly
\* one stored identity, and each identity that a student creation inserted has
\* exactly one profile, whichever statement of a create, update or delete
\* fails.
C6_IdentityProfilePairing ==
    /\ \A s \in students : Cardinality({u \in users : u.id = s.user_id}) = 1
    /\ \A u \in users :
          u.username \notin SeedNames =>
              /\ u.role = "student"
              /\ Cardinality({s \in students : s.user_id = u.id}) = 1

\* a create failed at the profile insert, after the identity insert had
\* succeeded, while another student is stored
C6_Witness ==
    /\ req.route = "POST /api/admin/students"
    /\ req.status = 500
    /\ req.out.err = "insert_student"
    /\ userSeq = req.pre.userSeq + 1
    /\ students # {}

\* the body's email or username is already taken when the handler starts
Taken ==
    \/ \E s \in req.pre.students : s.email = req.in.s.email
    \/ \E u \in req.pre.users : u.username = req.in.s.username

\* C7: a student creation whose email or username is already taken fails with
\* the uniqueness error (or an earlier storage fault) and leaves the users and
\* students tables exactly as they were, the identity row it inserted included.
C7_DuplicateCreateRollsBack ==
    (/\ req.route = "POST /api/admin/students"
     /\ HandlerRan
     /\ req.status \notin {400, 401}
     /\ Taken) =>
        /\ req.status = 500
        /\ req.out.err \notin CreateSteps => req.out.err = "unique"
        /\ users = req.pre.users
        /\ students = req.pre.students
        /\ \A u \in users : u.username = req.in.s.username =>
              \E v \in req.pre.users : v = u

\* the email is taken and the username is free: the identity insert succeeded
\* inside the transaction before the profile insert failed
C7_Witness ==
    /\ req.route = "POST /api/admin/students"
    /\ \E s \in req.pre.students : s.email = req.in.s.email
    /\ ~\E u \in req.pre.users : u.username = req.in.s.username
    /\ req.out.err = "unique"
    /\ userSeq = req.pre.userSeq + 1
    /\ studentSeq = req.pre.studentSeq + 1

\* C8: DeleteStudent for an id no student has returns the not-found error
\* (sql.ErrNoRows) unless a storage fault comes first, and either way leaves
\* every table unchanged.
C8_DeleteMissingStudent ==
    (/\ req.route = "DELETE /api/admin/students/:id"
     /\ HandlerRan
     /\ req.in.id.numeric
     /\ ~\E s \in req.pre.students : s.id = req.in.id.n) =>
        /\ req.out.err # ""
        /\ req.out.err \notin DeleteSteps => req.out.err = "no_rows"
        /\ NothingWritten

C8_Witness ==
    /\ req.route = "DELETE /api/admin/students/:id"
    /\ req.in.id = Param(TRUE, 2)
    /\ students # {}
    /\ \E u \in users : u.id = 2
    /\ req.out.err = "no_rows"

\* the id the handler read names no stored entity of the kind it looks up
MissingEntity ==
    CASE req.route = "GET /api/subjects/id/:id" ->
            ~\E s \in req.pre.subjects : s.id = req.in.id.n
      [] req.route = "GET /api/teachers/:id" ->
            ~\E u \in req.pre.users : u.id = req.in.id.n /\ u.role = "teacher"
      [] req.route \in {"GET /api/admin/students/:id", "PUT /api/admin/students/:id",
                        "DELETE /api/admin/students/:id"} ->
            ~\E s \in req.pre.students : s.id = req.in.id.n
      [] req.route = "POST /api/teachers/:id/subjects" ->
            \/ ~\E u \in req.pre.users : u.id = req.in.id.n /\ u.role = "teacher"
            \/ ~\E s \in req.pre.subjects : s.id = req.in.subject.n
      [] OTHER -> FALSE

\* C9 as claimed: when a well-formed request from an authorized caller names
\* an entity that does not exist, the handlers that get a subject or teacher,
\* get, update or delete a student, or assign a subject answer 404.
C9_MissingEntityIs404 ==
    (/\ HandlerRan
     /\ req.status \notin {400, 401}
     /\ req.in.id.numeric
     /\ MissingEntity) => req.status = 404

\* C10: on POST /api/admin/students a request without an Authorization header
\* is answered 401, one carrying a teacher's token 403, and one carrying an
\* admin's token whose body lacks the email 400; none of them writes a row.
C10_CreateStudentScenario ==
    (req.route = "POST /api/admin/students" /\ Done(req)) =>
        /\ HeaderLen(req.header) = 0 => (req.status = 401 /\ NothingWritten)
        /\ Carries("teacher") => (req.status = 403 /\ NothingWritten)
        /\ (Carries("admin") /\ ~req.in.malformed /\ req.in.s.email = "") =>
              (req.status = 400 /\ NothingWritten /\ userSeq = req.pre.userSeq)

C10_Witness ==
    /\ req.route = "POST /api/admin/students"
    /\ Carries("admin")
    /\ req.in.s.username = "s1"
    /\ req.in.s.email = ""
    /\ req.status = 400
    /\ req.ran[Len(req.ran)] = "HandleCreateStudent"

\* the Authorization header carries a token login handed out to username
TokenOf(username) ==
    /\ req.header.scheme = "Bearer "
    /\ req.header.cred # <<>>
    /\ req.header.cred[1] \in issued
    /\ \E u \in req.pre.users : u.username = username /\ u.id = req.header.cred[1].uid

\* C11 as claimed: after main has run on a store that held no teacher, and
\* before any request changes a table, login as wg / wg_123 answers 200 with a
\* token, and GET /api/teachers with that token answers 200 with a list in
\* which wg's subjects include PIB Physics.
C11_WgTeachesPIBPhysics ==
    req.pre = FreshStore =>
        /\ (req.route = "POST /api/login" /\ HandlerRan
              /\ req.in = Login("wg", "wg_123")) =>
              (req.status = 200 /\ req.out.token # <<>>)
        /\ (req.route = "GET /api/teachers" /\ HandlerRan /\ TokenOf("wg")) =>
              /\ req.status = 200
              /\ \E t \in req.out.rows :
                    /\ t.username = "wg"
                    /\ \E x \in t.subjects : x.grade = "PIB" /\ x.name = "Physics"

\* the assignment handler got as far as calling the repository
AssignCalled ==
    /\ req.route = "POST /api/teachers/:id/subjects"
    /\ HandlerRan
    /\ req.in.id.numeric
    /\ req.in.subject.numeric

\* C13: AssignSubjectToTeacher returns the not-found error (sql.ErrNoRows) and
\* writes no row when the teacher id names no identity with role teacher (an
\* admin's or a student's id included) or the subject id names no subject.
C13_AssignUnknownFails ==
    (/\ AssignCalled
     /\ \/ ~\E u \in req.pre.users : u.id = req.in.id.n /\ u.role = "teacher"
        \/ ~\E x \in req.pre.subjects : x.id = req.in.subject.n) =>
        /\ req.out.err = "no_rows"
        /\ NothingWritten

\* the admin's id is given as the teacher, the subject exists
C13_Witness ==
    /\ AssignCalled
    /\ \E u \in req.pre.users : u.id = req.in.id.n /\ u.role = "admin"
    /\ \E x \in req.pre.subjects : x.id = req.in.subject.n
    /\ req.out.err = "no_rows"
    /\ teacher_subjects # {}

\* C14: every teacher_subjects row links a stored identity whose role is
\* teacher to a stored subject, and no (teacher, subject) pair has two rows.
C14_AssignmentsWellFormed ==
    \A t \in teacher_subjects :
        /\ \E u \in users : u.id = t.teacher_id /\ u.role = "teacher"
        /\ \E x \in subjects : x.id = t.subject_id
        /\ \A t2 \in teacher_subjects :
              (t2.teacher_id = t.teacher_id /\ t2.subject_id = t.subject_id) => t2 = t

\* seeded at a restart, one assignment removed since, a student stored
C14_Witness ==
    /\ phase = "serving"
    /\ Cardinality(teacher_subjects) = Len(SeedAssignments) - 1
    /\ students # {}
    /\ req.route = "DELETE /api/teachers/:id/subjects/:subjectId"
    /\ req.status = 200

\* the unassignment handler got as far as calling the repository
RemoveCalled ==
    /\ req.route = "DELETE /api/teachers/:id/subjects/:subjectId"
    /\ HandlerRan
    /\ req.in.id.numeric
    /\ req.in.subject.numeric

\* C15: RemoveSubjectFromTeacher succeeds whether or not the pair has a row;
\* it removes the rows of that pair and no other, so it leaves the table as it
\* was when the pair had none, and a second application changes nothing.
C15_RemoveIdempotent ==
    RemoveCalled =>
        /\ req.status = 200
        /\ req.out.err = ""
        /\ teacher_subjects =
              {t \in req.pre.teacher_subjects :
                  ~(t.teacher_id = req.in.id.n /\ t.subject_id = req.in.subject.n)}
        /\ RemoveSubjectFromTeacher(DB, req.in.id.n, req.in.subject.n).db = DB
        /\ users = req.pre.users /\ students = req.pre.students
        /\ subjects = req.pre.subjects

\* the pair had no row while the teacher had others
C15_Witness ==
    /\ RemoveCalled
    /\ req.status = 200
    /\ teacher_subjects = req.pre.teacher_subjects
    /\ \E t \in teacher_subjects : t.teacher_id = req.in.id.n

\* the rows teacher_subjects holds for the pair of call c
PairRows(ts, c) == {t \in ts : t.teacher_id = c.teacher /\ t.subject_id = c.subject}

\* calls p and q have both assigned the same resolvable pair
AssignedTwice(p, q) ==
    /\ p # q
    /\ calls[p].op = "assign" /\ calls[p].pc = "done"
    /\ calls[q].op = "assign" /\ calls[q].pc = "done"
    /\ calls[p].teacher = calls[q].teacher /\ calls[p].subject = calls[q].subject
    /\ \E u \in users : u.id = calls[p].teacher /\ u.role = "teacher"
    /\ \E x \in subjects : x.id = calls[p].subject

\* C12: when two requests, one after the other or interleaved statement by
\* statement, assign the same (teacher, subject) pair, both are answered 200
\* and the pair has exactly one row; an INSERT that finds the pair present
\* leaves teacher_subjects as it was.
C12_AssignTwiceOneRow ==
    [][ /\ \A p \in Procs :
              (/\ calls[p].op = "assign" /\ calls[p].pc = "insert"
               /\ calls'[p].pc = "done"
               /\ PairRows(teacher_subjects, calls[p]) # {}) =>
                  (teacher_subjects' = teacher_subjects /\ calls'[p].status = 200)
        /\ \A p, q \in Procs :
              AssignedTwice(p, q)' =>
                  /\ calls'[p].status = 200 /\ calls'[q].status = 200
                  /\ Cardinality(PairRows(teacher_subjects', calls'[p])) = 1
      ]_vars

\* the second call began while the first was running
C12_Witness ==
    /\ AssignedTwice(1, 2)
    /\ 1 \in calls[2].with
    /\ calls[1].status = 200 /\ calls[2].status = 200
    /\ Cardinality(PairRows(teacher_subjects, calls[1])) = 1

\* calls p and q have both run a create, with the same username or the same
\* email, and no stored row other than theirs carries a username or an email
\* of either
CollidingCreates(p, q) ==
    /\ p # q
    /\ calls[p].op = "create" /\ calls[p].pc = "done"
    /\ calls[q].op = "create" /\ calls[q].pc = "done"
    /\ \/ calls[p].r.username = calls[q].r.username
       \/ calls[p].r.email = calls[q].r.email
    /\ \A u \in users :
          u.username \in {calls[p].r.username, calls[q].r.username} =>
              u.id \in {calls[p].uid, calls[q].uid}
    /\ \A x \in students :
          x.email \in {calls[p].r.email, calls[q].r.email} =>
              x.user_id \in {calls[p].uid, calls[q].uid}

\* the rows call c left in the store
RowsOf(c) ==
    [users |-> {u \in users : u.id = c.uid /\ c.uid # 0},
     students |-> {x \in students : x.user_id = c.uid /\ c.uid # 0}]

\* C16: of two student creates that carry the same username or the same email
\* and run at the same time, exactly one is answered 201 and has its identity
\* and its profile stored; the other is answered 500 and has no row stored.
C16_OneOfTwoCreatesWins ==
    \A p, q \in Procs :
        CollidingCreates(p, q) =>
            \E win \in {p, q} :
                LET lose == CHOOSE o \in {p, q} : o # win IN
                /\ calls[win].status = 201
                /\ Cardinality(RowsOf(calls[win]).users) = 1
                /\ Cardinality(RowsOf(calls[win]).students) = 1
                /\ calls[lose].status = 500
                /\ calls[lose].err = "unique"
                /\ RowsOf(calls[lose]).users = {}
                /\ RowsOf(calls[lose]).students = {}
                /\ \A u \in users :
                      u.username = calls[lose].r.username => u.id = calls[win].uid

\* both were running at once; the loser had inserted its identity before its
\* profile insert met the winner's email
C16_Witness ==
    /\ CollidingCreates(1, 2)
    /\ 1 \in calls[2].with
    /\ calls[1].r.email = calls[2].r.email
    /\ calls[1].r.username # calls[2].r.username
    /\ calls[1].status = 201
    /\ calls[2].status = 500
    /\ calls[2].uid # 0
    /\ calls[2].uid < calls[1].uid

\* C17: no two users rows share a username and no two students rows share an
\* email, whatever login, seeding, student creation and student update
\* (which may change the email) have done.
C17_UsernamesAndEmailsUnique ==
    /\ \A u, v \in users : u.username = v.username => u = v
    /\ \A s, t \in students : s.email = t.email => s = t

\* two students are stored and an update that asked for the other's email has
\* been refused
C17_Witness ==
    /\ req.route = "PUT /api/admin/students/:id"
    /\ req.out.err = "unique"
    /\ Cardinality(students) = 2
    /\ \E s \in students : s.id # req.in.id.n /\ s.email = req.in.s.email

\* C18: a users row keeps its role for as long as it is stored: no step of
\* startup or of a request changes the role of a row that exists before and
\* after it.
C18_RoleNeverChanges ==
    [][\A u \in users : \A v \in users' : v.id = u.id => v.role = u.role]_vars

\* an update has rewritten a student's password, the one statement that
\* updates a users row
C18_Witness ==
    /\ req.route = "PUT /api/admin/students/:id"
    /\ req.status = 200
    /\ \E u \in users : \E v \in req.pre.users :
          /\ v.id = u.id /\ v.password # u.password
          /\ u.role = "student"
    /\ \E u \in users : u.role = "teacher"

\* the users row the carried token was issued to is gone, or its password is
\* no longer the one the login gave
Stale ==
    \/ ~\E u \in req.pre.users : u.id = req.header.cred[1].uid
    \/ \E u \in req.pre.users :
          /\ u.id = req.header.cred[1].uid
          /\ \A in \in GateInputs.logins :
                in.s.username = u.username => in.s.password # u.password

\* C19: a token login issued to a student whose users row has since been
\* deleted, or whose password has since been changed, passes JWTAuth on every
\* protected route while its expiry has not passed, and on the routes open to
\* students the handler runs and does not answer 401 (GET /api/protected
\* answers 200 with the token's user id and role).
C19_StaleTokenAccepted ==
    (/\ req.route \in ProtectedRoutes
     /\ Ran("JWTAuth")
     /\ Carries("student")
     /\ Stale) =>
        /\ req.ctx = [set |-> TRUE, user_id |-> req.header.cred[1].uid,
                      role |-> "student"]
        /\ req.ran[Len(req.ran)] = "JWTAuth" => ~req.aborted
        /\ (req.route \in OpenRoutes /\ Done(req)) =>
              /\ HandlerRan
              /\ req.status # 401
              /\ req.route = "GET /api/protected" =>
                    /\ req.status = 200
                    /\ req.out.rows = {[user_id |-> req.header.cred[1].uid,
                                        role |-> "student"]}

\* the student was deleted after the login, and GET /api/protected answers
\* 200 to the token
C19_Witness ==
    /\ req.route = "GET /api/protected"
    /\ req.status = 200
    /\ Carries("student")
    /\ ~\E u \in req.pre.users : u.id = req.header.cred[1].uid

\* the password was changed after the login, and a subjects route is served
C19_WitnessPassword ==
    /\ req.route = "GET /api/subjects"
    /\ req.status = 200
    /\ Carries("student")
    /\ \E u \in req.pre.users : u.id = req.header.cred[1].uid /\ u.password = "pw2"

\* the request was let through to its handler, which did not refuse the token
Admitted == HandlerRan /\ req.status \notin {401, 403}
\* a role filter stopped the request with 403 before any handler ran
Forbidden == req.status = 403 /\ ~HandlerRan /\ req.aborted /\ NothingWritten

\* C20: for a request that carries an issued, unexpired token: GET
\* /api/protected and the /api/subjects routes admit admin, teacher and
\* student; GET /api/teachers and GET /api/teachers/:id admit teacher and
\* admin and answer 403 to student; the two assignment routes and the
\* /api/admin/students routes admit admin and answer 403 to teacher and student.
C20_RoleMatrix ==
    Done(req) =>
        /\ \A role \in {"admin", "teacher", "student"} :
              (Carries(role) /\ req.route \in OpenRoutes) => Admitted
        /\ \A role \in {"admin", "teacher"} :
              (Carries(role) /\ req.route \in TeacherRoutes) => Admitted
        /\ (Carries("student") /\ req.route \in TeacherRoutes) => Forbidden
        /\ (Carries("admin") /\ req.route \in AdminRoutes) => Admitted
        /\ \A role \in {"teacher", "student"} :
              (Carries(role) /\ req.route \in AdminRoutes) => Forbidden

\* a student's token is answered 403 on GET /api/teachers/:id by
\* TeacherOrAdmin
C20_Witness ==
    /\ req.route = "GET /api/teachers/:id"
    /\ Carries("student")
    /\ req.status = 403
    /\ req.ran[Len(req.ran)] = "TeacherOrAdmin"

\* a teacher's token is answered 403 on an assignment route by AdminOnly
C20_WitnessTeacher ==
    /\ req.route \in AssignmentRoutes
    /\ Carries("teacher")
    /\ req.status = 403
    /\ req.ran[Len(req.ran)] = "AdminOnly"

\* an admin's token reaches an assignment handler through both role filters
C20_WitnessAdmin ==
    /\ req.route \in AssignmentRoutes
    /\ Carries("admin")
    /\ req.status = 200
    /\ Ran("TeacherOrAdmin") /\ Ran("AdminOnly")

\* C21: GET /api/subjects/:grade with grade PIB, IB1 or IB2 answers 200 with
\* a list that holds each stored subject of that grade once and no other
\* subject, in ascending order of name; with any other grade the handler
\* answers 400 and returns nothing from the repository.
C21_SubjectsByGrade ==
    (req.route = "GET /api/subjects/:grade" /\ HandlerRan) =>
        IF req.in.grade \in {"PIB", "IB1", "IB2"}
        THEN /\ req.status = 200
             /\ {req.out.rows[i] : i \in 1..Len(req.out.rows)}
                   = {s \in req.pre.subjects : s.grade = req.in.grade}
             /\ \A i, j \in 1..Len(req.out.rows) :
                   /\ (i # j) => req.out.rows[i] # req.out.rows[j]
                   /\ (i < j) => NameRank(req.out.rows[i].name)
                                   <= NameRank(req.out.rows[j].name)
        ELSE /\ req.status = 400
             /\ req.out = NoOutput

\* the IB1 list is served: eight subjects, whose name order is not the order
\* of their ids
C21_Witness ==
    /\ req.route = "GET /api/subjects/:grade"
    /\ req.in.grade = "IB1"
    /\ req.status = 200
    /\ Len(req.out.rows) = 8
    /\ req.out.rows[1].name = "Biology"
    /\ req.out.rows[1].id > req.out.rows[2].id

\* C22 as claimed: whenever startup has completed, each seeded username has
\* one users row, each seeded (grade, name) one subjects row and no (teacher,
\* subject) pair two assignment rows; and a startup that began on the store a
\* complete first startup left, with no write in between, leaves that store
\* as it was.
C22_SeedingIdempotent ==
    (phase = "serving" /\ req.route = "none") =>
        /\ \A i \in 1..Len(SeedUsers) :
              Cardinality({u \in users : u.username = SeedUsers[i][1]}) = 1
        /\ \A i \in 1..Len(SeedSubjects) :
              Cardinality({x \in subjects : x.grade = SeedSubjects[i][1]
                                             /\ x.name = SeedSubjects[i][2]}) = 1
        /\ \A t, t2 \in teacher_subjects :
              (t.teacher_id = t2.teacher_id /\ t.subject_id = t2.subject_id) => t = t2
        /\ req.pre = FreshStore => DB = FreshStore

\* the parts of C22 that hold: one row per seeded username and per seeded
\* (grade, name), no pair assigned twice, after any number of startups
C22_SeedRowsOnce ==
    phase = "serving" =>
        /\ \A i \in 1..Len(SeedUsers) :
              Cardinality({u \in users : u.username = SeedUsers[i][1]}) = 1
        /\ \A i \in 1..Len(SeedSubjects) :
              Cardinality({x \in subjects : x.grade = SeedSubjects[i][1]
                                             /\ x.name = SeedSubjects[i][2]}) = 1
        /\ \A t, t2 \in teacher_subjects :
              (t.teacher_id = t2.teacher_id /\ t.subject_id = t2.subject_id) => t = t2

\* C23 as claimed: once startup has completed, every users row whose role is
\* student has exactly one students row.
C23_StudentHasProfile ==
    phase = "serving" =>
        \A u \in users :
            u.role = "student" => Cardinality({s \in students : s.user_id = u.id}) = 1

\* C24: a student creation answered 201 has added one users row, with a new
\* id, role student and the body's username and password, and one students row
\* with a new id, that user's id and the body's four profile fields; the
\* response is that profile with the body's username; every row stored before
\* is still there unchanged and no other table is written.
C24_CreateEffect ==
    (req.route = "POST /api/admin/students" /\ req.status = 201) =>
        \E u \in users \ req.pre.users : \E s \in students \ req.pre.students :
            /\ users = req.pre.users \cup {u}
            /\ students = req.pre.students \cup {s}
            /\ u = [id |-> u.id, username |-> req.in.s.username,
                    password |-> req.in.s.password, role |-> "student"]
            /\ \A v \in req.pre.users : v.id # u.id
            /\ \A p \in req.pre.students : p.id # s.id
            /\ s = [id |-> s.id, user_id |-> u.id,
                    first_name |-> req.in.s.first_name,
                    last_name |-> req.in.s.last_name,
                    email |-> req.in.s.email, grade |-> req.in.s.grade]
            /\ req.out.rows = {[id |-> s.id, user_id |-> u.id,
                                first_name |-> s.first_name, last_name |-> s.last_name,
                                email |-> s.email, grade |-> s.grade,
                                username |-> req.in.s.username]}
            /\ subjects = req.pre.subjects
            /\ teacher_subjects = req.pre.teacher_subjects

\* a second student is created while the first is stored
C24_Witness ==
    /\ req.route = "POST /api/admin/students"
    /\ req.status = 201
    /\ req.pre.students # {}
    /\ Cardinality(students) = 2

\* C25: a student update answered 200 has replaced the addressed profile's
\* first name, last name, email and grade by the body's values and kept its id
\* and user_id; the owner's password is the body's password when that is
\* non-empty and is unchanged when it is empty; the owner's username and role,
\* every other users row and every other students row are unchanged; the
\* body's username is not used (the response carries the owner's).
C25_UpdateEffect ==
    (req.route = "PUT /api/admin/students/:id" /\ req.status = 200) =>
        \E old \in req.pre.students : \E owner \in req.pre.users :
            /\ old.id = req.in.id.n
            /\ owner.id = old.user_id
            /\ students = (req.pre.students \ {old}) \cup
                  {[id |-> old.id, user_id |-> old.user_id,
                    first_name |-> req.in.s.first_name,
                    last_name |-> req.in.s.last_name,
                    email |-> req.in.s.email, grade |-> req.in.s.grade]}
            /\ users = (req.pre.users \ {owner}) \cup
                  {[id |-> owner.id, username |-> owner.username, role |-> owner.role,
                    password |-> IF req.in.s.password # "" THEN req.in.s.password
                                 ELSE owner.password]}
            /\ req.out.rows =
                  {[id |-> old.id, user_id |-> old.user_id,
                    first_name |-> req.in.s.first_name,
                    last_name |-> req.in.s.last_name,
                    email |-> req.in.s.email, grade |-> req.in.s.grade,
                    username |-> owner.username]}
            /\ subjects = req.pre.subjects
            /\ teacher_subjects = req.pre.teacher_subjects

\* one of two stored students is updated with a new password and a body
\* username that is the other student's
C25_Witness ==
    /\ req.route = "PUT /api/admin/students/:id"
    /\ req.status = 200
    /\ req.in.s.password # ""
    /\ Cardinality(students) = 2
    /\ \E u \in users : \E s \in students :
          /\ s.user_id = u.id /\ s.id # req.in.id.n
          /\ u.username = req.in.s.username
    /\ \E u \in users \ req.pre.users : u.username # req.in.s.username

\* a student is updated with an empty password: the users table is as it was
C25_WitnessNoPassword ==
    /\ req.route = "PUT /api/admin/students/:id"
    /\ req.status = 200
    /\ req.in.s.password = ""
    /\ users = req.pre.users
    /\ students # req.pre.students

\* what POST /api/login answers now to the given credentials
LoginStatus(username, password) ==
    HandleLogin(NewRequest("POST /api/login", DB), DB, now,
                Login(username, password)).r.status

\* C26: a student update whose body has a non-empty password and which fails
\* (answered 500) leaves the owner's users row as it was: logging in with the
\* old password answers 200 and with the body's password, when that differs,
\* 401; the profile is unchanged too.
C26_FailedUpdateKeepsPassword ==
    (/\ req.route = "PUT /api/admin/students/:id"
     /\ req.status = 500
     /\ req.in.s.password # "") =>
        /\ users = req.pre.users
        /\ students = req.pre.students
        /\ \A old \in req.pre.students : \A owner \in req.pre.users :
              (old.id = req.in.id.n /\ owner.id = old.user_id) =>
                  /\ LoginStatus(owner.username, owner.password) = 200
                  /\ req.in.s.password # owner.password =>
                        LoginStatus(owner.username, req.in.s.password) = 401

\* the update set the password and then failed on another student's email
C26_Witness ==
    /\ req.route = "PUT /api/admin/students/:id"
    /\ req.status = 500
    /\ req.out.err = "unique"
    /\ req.in.s.password = "pw2"
    /\ \E old \in students : \E owner \in users :
          /\ old.id = req.in.id.n /\ owner.id = old.user_id
          /\ owner.password = "pw1"
          /\ LoginStatus(owner.username, "pw1") = 200

\* C27: a student deletion answered 200 has removed the addressed students row
\* and the users row it belonged to, in one transaction (a deletion answered
\* 500 has removed neither); login with the removed username answers 401;
\* every other users and students row and the other tables are unchanged.
C27_DeleteEffect ==
    /\ (req.route = "DELETE /api/admin/students/:id" /\ req.status = 200) =>
          \E old \in req.pre.students : \E owner \in req.pre.users :
              /\ old.id = req.in.id.n
              /\ owner.id = old.user_id
              /\ students = req.pre.students \ {old}
              /\ users = req.pre.users \ {owner}
              /\ LoginStatus(owner.username, owner.password) = 401
              /\ subjects = req.pre.subjects
              /\ teacher_subjects = req.pre.teacher_subjects
    /\ (req.route = "DELETE /api/admin/students/:id" /\ req.status = 500) =>
          (users = req.pre.users /\ students = req.pre.students)

\* one of two students is deleted; the other and the seeded users stay
C27_Witness ==
    /\ req.route = "DELETE /api/admin/students/:id"
    /\ req.status = 200
    /\ Cardinality(req.pre.students) = 2
    /\ Cardinality(students) = 1
    /\ Cardinality(users) = Len(SeedUsers) + 1

\* JWTAuth, TeacherOrAdmin or AdminOnly stopped the request with 401 or 403
RejectedByGate ==
    /\ req.aborted
    /\ req.status \in {401, 403}
    /\ req.ran[Len(req.ran)] \in {"JWTAuth", "TeacherOrAdmin", "AdminOnly"}
\* the request carries no token whose role claim is admin
NotAdminToken == BadHeader(req.header) \/ req.header.cred[1].role # "admin"

\* C28: a completed request that a gate middleware rejected with 401 or 403,
\* or whose token's role is not admin (no token included), has left the
\* users, students, subjects and teacher_subjects tables as they were when it
\* arrived and has produced exactly one response.
C28_OnlyAdminWrites ==
    (/\ req.route \in Routes
     /\ Done(req)
     /\ RejectedByGate \/ NotAdminToken) =>
        /\ NothingWritten
        /\ req.responses = 1

\* a teacher's valid token on the student deletion route, a student stored
C28_Witness ==
    /\ req.route = "DELETE /api/admin/students/:id"
    /\ Carries("teacher")
    /\ RejectedByGate
    /\ req.status = 403
    /\ students # {}
    /\ req.responses = 1

\* C29 as claimed: on an /api/admin/students route, a request that JWTAuth and
\* AdminOnly let through to the handler is never answered 401 by the handler.
C29_HandlerNeverRefuses ==
    (/\ req.route \in StudentRoutes
     /\ Ran("JWTAuth") /\ Ran("AdminOnly")
     /\ HandlerRan) =>
        req.status # 401

\* C29 amended: when the handler of an /api/admin/students route runs, after
\* JWTAuth and AdminOnly let the request through, it answers 401 exactly when
\* the token's expiry has passed at that moment, and then writes nothing;
\* while the expiry has not passed its validateAdminToken agrees with the gate.
C29_HandlerAgreesUntilExpiry ==
    [][(/\ req.route \in StudentRoutes
        /\ Ran("JWTAuth") /\ Ran("AdminOnly")
        /\ ~HandlerRan
        /\ HandlerRan') =>
           /\ (req'.status = 401) <=> (now >= req.header.cred[1].exp)
           /\ req'.status = 401 => tables' = tables]_vars

\* the clock passed the token's expiry after AdminOnly let the request
\* through, and the handler answered 401
C29_Witness ==
    /\ req.route \in StudentRoutes
    /\ Ran("AdminOnly")
    /\ HandlerRan
    /\ req.status = 401
    /\ req.header.cred[1] \in issued
    /\ req.header.cred[1].role = "admin"
    /\ now >= req.header.cred[1].exp

\* a login body that binds: both required fields present
WellFormed(in) == ~in.malformed /\ in.s.username # "" /\ in.s.password # ""
\* the body names no stored username
UnknownUser(db, in) == ~\E u \in db.users : u.username = in.s.username
\* the body names a stored username with another password than the stored one
WrongPassword(db, in) ==
    \E u \in db.users : u.username = in.s.username /\ u.password # in.s.password
\* what the client sees of an answered request
Response(r) == [status |-> r.status, error |-> r.error, out |-> r.out,
                responses |-> r.responses]

\* C30: a well-formed login that fails is answered 401 "Invalid username or
\* password" without a token and without a write, whether the username is
\* unknown or the password wrong; and any well-formed login that fails the
\* other way on the same store gets the identical response.
C30_LoginFailuresAlike ==
    (/\ req.route = "POST /api/login"
     /\ HandlerRan
     /\ WellFormed(req.in)
     /\ UnknownUser(req.pre, req.in) \/ WrongPassword(req.pre, req.in)) =>
        /\ req.status = 401
        /\ req.error = "Invalid username or password"
        /\ req.out = NoOutput
        /\ req.responses = 1
        /\ NothingWritten
        /\ \A other \in GateInputs.logins :
              (/\ WellFormed(other)
               /\ UnknownUser(req.pre, other) # UnknownUser(req.pre, req.in)
               /\ UnknownUser(req.pre, other) \/ WrongPassword(req.pre, other)) =>
                  /\ Response(HandleLogin(NewRequest(req.route, req.pre), req.pre, now,
                                          other).r) = Response(req)
                  /\ HandleLogin(NewRequest(req.route, req.pre), req.pre, now,
                                 other).db = req.pre

\* a stored username with a wrong password was refused, while the inputs hold
\* a well-formed login naming an unknown username
C30_Witness ==
    /\ req.route = "POST /api/login"
    /\ req.status = 401
    /\ WellFormed(req.in)
    /\ WrongPassword(req.pre, req.in)
    /\ \E other \in GateInputs.logins :
          WellFormed(other) /\ UnknownUser(req.pre, other)

====
